---- MODULE Spec2Model ----
(***************************************************************************)
(* A model of portablemc (src/portablemc.py): the download planner         *)
(* (DownloadList), the download executor (CorePortableMC.download_files),  *)
(* the asset provisioner's enqueue loop, and the version metadata           *)
(* resolver (resolve_version_meta, resolve_version_meta_recursive,          *)
(* dict_merge).                                                             *)
(***************************************************************************)
EXTENDS Integers, Sequences, FiniteSets, TLC

(***************************************************************************)
(* Bounds of the model.                                                    *)
(***************************************************************************)
\* the largest number of append calls made on a plan
MaxEntries == 2

(***************************************************************************)
(* Values.                                                                 *)
(***************************************************************************)
\* Python's None, where an int is optional (DownloadEntry.size)
None == -1
\* Python's None, where a str is optional (DownloadEntry.sha1, error)
NoneStr == "None"

Byte == {0, 1}
\* the bodies the server sends: the empty one and the one-byte ones
Contents == {<<>>} \cup {<<b>> : b \in Byte}

\* hashlib.sha1(c).hexdigest(), the leading four hex digits of the real
\* digests of the byte strings over {00, 01}: distinct contents, distinct digests
HexDigest(c) ==
  CASE c = <<>> -> "da39"
    [] c = <<0>> -> "5ba9"
    [] c = <<1>> -> "bf8b"
    [] c = <<0, 0>> -> "1489"
    [] c = <<0, 1>> -> "3f29"
    [] c = <<1, 0>> -> "0e35"
    [] c = <<1, 1>> -> "9159"
    [] OTHER -> "ffff"

\* asset_hash[:2]
HashPrefix(h) ==
  CASE h = "da39" -> "da"
    [] h = "5ba9" -> "5b"
    [] h = "bf8b" -> "bf"
    [] OTHER -> "xx"

\* a file of the file system: absent, or a regular file with its bytes
NoFile == [exists |-> FALSE, data |-> <<>>]
FileOf(c) == [exists |-> TRUE, data |-> c]

\* url_parse.urlparse(url): the scheme and the netloc of a URL
MkUrl(scheme, netloc, p) == [scheme |-> scheme, netloc |-> netloc, path |-> p]
UrlParse(url) == [scheme |-> url.scheme, netloc |-> url.netloc]

\* DownloadEntry.__init__: name defaults to the url's path when not given
DownloadEntry(url, dst, sz, sha1, name) ==
  [url |-> url, dst |-> dst, size |-> sz, sha1 |-> sha1, name |-> name]

\* ASSET_BASE_URL.format(asset_hash_prefix, asset_hash)
ASSET_BASE_URL(prefix, h) == MkUrl("https", "resources.download.minecraft.net", <<prefix, h>>)

\* path.join(assets_objects_dir, asset_hash_prefix, asset_hash)
AssetFile(h) == <<"assets", "objects", HashPrefix(h), h>>

(***************************************************************************)
(* The inputs the model draws from.                                        *)
(***************************************************************************)
DstJar == <<"versions", "v", "v.jar">>
DstLib == <<"libraries", "l.jar">>

\* the download entries the provisioners other than ensure_assets append
EntryPool ==
  { DownloadEntry(MkUrl("https", "a", <<"x">>), DstJar, 1, "bf8b", "v.jar"),
    \* the same destination as the first, declared with another digest, other scheme
    DownloadEntry(MkUrl("http", "a", <<"x">>), DstJar, 1, "5ba9", "v.jar"),
    \* the same URL as the first, another destination, nothing declared
    DownloadEntry(MkUrl("https", "a", <<"x">>), DstLib, None, NoneStr, "l"),
    \* an empty file: a declared size of zero, the digest of the empty string
    DownloadEntry(MkUrl("https", "b", <<"y">>), DstLib, 0, "da39", "l"),
    \* a scheme that is neither http nor https
    DownloadEntry(MkUrl("ftp", "a", <<"x">>), DstLib, None, NoneStr, "l") }

\* assets_index["objects"].items(), in the order of the index file
AssetObj(id, h, sz) == [id |-> id, hash |-> h, size |-> sz]
AssetObjects ==
  { <<AssetObj("a", "bf8b", 1), AssetObj("b", "bf8b", 1)>>,
    <<AssetObj("a", "bf8b", 1), AssetObj("b", "5ba9", 1)>>,
    <<AssetObj("a", "5ba9", 1)>> }

\* the index file: its objects, and the flags map_to_resources and virtual
\* (assets_index.get(..., False))
AssetIndex(objs, to_resources, virtual) ==
  [objects |-> objs, map_to_resources |-> to_resources, virtual |-> virtual]
AssetIndexPool ==
  { AssetIndex(objs, mapped, virt) :
      objs \in AssetObjects, mapped \in BOOLEAN, virt \in BOOLEAN }
NoIndex == AssetIndex(<<>>, FALSE, FALSE)

\* path.join(work_dir, "resources", asset_id)
ResourcesAssetFile(id) == <<"work", "resources", id>>

\* path.join(assets_dir, "virtual", assets_index_version, asset_id)
VirtualAssetFile(id) == <<"assets", "virtual", "i", id>>

\* the finalisers: ensure_assets registers "assets", ensure_logger "logger"
CallbackIds == {"assets", "logger"}

\* what the server answers to a GET: a status, and a body when the status is 200
Responses ==
  {[status |-> 200, body |-> c] : c \in Contents} \cup {[status |-> 404, body |-> <<>>]}
NoResponse == [status |-> 0, body |-> <<>>]

AllDsts ==
  {e.dst : e \in EntryPool} \cup {AssetFile(h) : h \in {"bf8b", "5ba9"}}
  \cup {ResourcesAssetFile(id) : id \in {"a", "b"}}
  \cup {VirtualAssetFile(id) : id \in {"a", "b"}}

(***************************************************************************)
(* State.                                                                  *)
(***************************************************************************)
VARIABLES
  lst,          \* the DownloadList: entries (host key -> list), callbacks, count, size
  appended,     \* history: the append calls made, in order, each with its entry
                \* and whether it raised ValueError
  assets_index, \* the asset index ensure_assets read, NoIndex before
  files,        \* the file system: destination path -> file
  pc,           \* where start_mc / download_files is
  bi,           \* download_files: index of the host bucket being drained
  ei,           \* download_files: index of the entry in the bucket
  tries,        \* download_files: iterations of the retry loop made for the entry
  res,          \* download_files: the response of the entry's GET (status, unread body)
  error,        \* download_files: error
  total_size,   \* download_files: total_size
  fails,        \* download_files: fails, url -> error kind
  headers,      \* download_files: headers["Connection"]
  conns,        \* the connections opened so far, the last one is conn
  requests,     \* the GET requests sent so far
  would,        \* the server: what it would answer to one more GET of the entry's URL
  done,         \* history: the outcome of every entry drained so far
  ci,           \* download_files: index of the next callback
  ran           \* the callbacks run so far

dlvars == <<lst, appended, assets_index, files, pc, bi, ei, tries, res,
            error, total_size, fails, headers, conns, requests, would, done, ci, ran>>

VARIABLES
  cache,            \* version id -> the cache file versions/<id>/<id>.json
  manifest,         \* the ids the version manifest has an entry for
  manifest_loaded,  \* self._version_manifest is not None
  net_up,           \* whether HTTP requests succeed
  requested,        \* the ids whose version document was requested, in order
  ncalls,           \* the number of resolve calls made
  result,           \* the outcome of the last resolve call that ended
  rr                \* resolve_version_meta_recursive: where it is, and its locals

rvars == <<cache, manifest, manifest_loaded, net_up, requested, ncalls, result, rr>>

VARIABLES
  parent_meta,      \* dict_merge: the parent document, as resolved
  version_meta,     \* dict_merge: the child document, as resolved
  merged,           \* the document after the merge, JNull before
  mpc               \* "resolved" before the merge, "merged" after

mvars == <<parent_meta, version_meta, merged, mpc>>

VARIABLES
  call,             \* a call of a provisioning function: its name and its arguments
  ret               \* what the call returned or raised, NoRet before it ran

pvars == <<call, ret>>

VARIABLES
  db,               \* AuthDatabase._sessions
  filename,         \* the primary session file
  legacy_filename,           \* the legacy session file
  aret,             \* the outcome of the last store operation or command
  migrated,         \* history: the sessions imported from the legacy file
  nops              \* the number of operations made

avars == <<db, filename, legacy_filename, aret, migrated, nops>>

VARIABLES
  ms,               \* a MicrosoftAuthSession
  msret,            \* the outcome of the last method called on it
  msops             \* the number of methods called

svars == <<ms, msret, msops>>

VARIABLES
  auth_server,      \* the AuthServer of prompt_microsoft_authenticate
  lpc,              \* where prompt_microsoft_authenticate is
  resp,             \* the last request to the listener and its response
  lret,             \* what prompt_microsoft_authenticate ended with
  interrupted,      \* history: a KeyboardInterrupt ended the loop
  nreqs             \* the number of requests handled

lvars == <<auth_server, lpc, resp, lret, interrupted, nreqs>>

VARIABLES
  launch,           \* start_mc: the options of the call, and what the stages find
  tpc,              \* where start_mc is
  trail,            \* history: the stages start_mc completed, in order
  dl_list,          \* start_mc: dl_list, the plan the provisioners append to
  drained,          \* history: what download_files was given and what it did
  traised           \* the exception that left start_mc, NoneStr when none did

tvars == <<launch, tpc, trail, dl_list, drained, traised>>

xvars == <<svars, lvars, tvars>>

vars == <<dlvars, rvars, mvars, pvars, avars, xvars>>

(***************************************************************************)
(* DownloadList                                                            *)
(***************************************************************************)
\* DownloadList.__init__
NewDownloadList == [entries |-> <<>>, callbacks |-> <<>>, count |-> 0, size |-> 0]

\* "{}{}".format(int(url_parsed.scheme == "https"), url_parsed.netloc)
HostKeyNoScheme(url) == <<0, UrlParse(url).netloc>>
HostKey(url) == <<(IF UrlParse(url).scheme = "https" THEN 1 ELSE 0), UrlParse(url).netloc>>

\* self.entries.get(host_key): the position of the bucket in the dict, 0 for None
BucketIndex(ents, hk) ==
  IF \E i \in 1..Len(ents) : ents[i].host = hk
  THEN CHOOSE i \in 1..Len(ents) : ents[i].host = hk
  ELSE 0

\* the scheme test of DownloadList.append
AppendRaises(entry) == UrlParse(entry.url).scheme \notin {"http", "https"}

\* the aggregate size after an append
SizeAfter(sz, entry) == IF entry.size # None THEN sz + entry.size ELSE sz

\* DownloadList.append, for an entry whose scheme is accepted
ListAppend(l, entry) ==
  LET hk == HostKey(entry.url)
      i  == BucketIndex(l.entries, hk)
  IN [ entries   |-> IF i = 0
                     THEN Append(l.entries, [host |-> hk, list |-> <<entry>>])
                     ELSE [l.entries EXCEPT ![i].list = Append(@, entry)],
       callbacks |-> l.callbacks,
       count     |-> l.count + 1,
       size      |-> SizeAfter(l.size, entry) ]

RECURSIVE ListAppendAll(_, _)
ListAppendAll(l, es) ==
  IF es = <<>> THEN l ELSE ListAppendAll(ListAppend(l, Head(es)), Tail(es))

\* DownloadList.add_callback
ListAddCallback(l, cb) == [l EXCEPT !.callbacks = Append(@, cb)]

(***************************************************************************)
(* ensure_assets: the enqueue loop                                         *)
(***************************************************************************)
\* not path.isfile(asset_file) or path.getsize(asset_file) != asset_size
AssetMissing(fs, obj) ==
  \/ ~fs[AssetFile(obj.hash)].exists
  \/ Len(fs[AssetFile(obj.hash)].data) # obj.size

\* the entry ensure_assets appends for one object of the index
AssetEntry(obj) ==
  DownloadEntry(ASSET_BASE_URL(HashPrefix(obj.hash), obj.hash), AssetFile(obj.hash),
                obj.size, obj.hash, obj.id)

\* the entries the loop over assets_index["objects"] appends, in order
RECURSIVE AssetEntries(_, _)
AssetEntries(fs, objs) ==
  IF objs = <<>> THEN <<>>
  ELSE (IF AssetMissing(fs, Head(objs)) THEN <<AssetEntry(Head(objs))>> ELSE <<>>)
       \o AssetEntries(fs, Tail(objs))

(***************************************************************************)
(* start_mc up to the drain: the provisioners build the plan               *)
(***************************************************************************)
\* dl_list.append(entry), by a provisioner
AppendEntry(entry) ==
  /\ pc = "build"
  /\ Len(appended) < MaxEntries
  /\ appended' = Append(appended, [entry |-> entry, raised |-> AppendRaises(entry)])
  /\ IF AppendRaises(entry)
     THEN UNCHANGED lst
     ELSE lst' = ListAppend(lst, entry)
  /\ UNCHANGED <<assets_index, files, pc, bi, ei, tries, res, error, total_size, fails,
                 headers, conns, requests, would, done, ci, ran>>
  /\ UNCHANGED <<rvars, mvars, pvars, avars, xvars>>

\* the history of the append calls a loop made for the entries es, none raising
RECURSIVE Accepted(_)
Accepted(es) ==
  IF es = <<>> THEN <<>>
  ELSE <<[entry |-> Head(es), raised |-> FALSE]>> \o Accepted(Tail(es))

\* ensure_assets(assets_dir, work_dir, version_meta, dl_list)
EnsureAssets(index) ==
  /\ pc = "build"
  /\ assets_index = NoIndex
  /\ Len(appended) + Len(index.objects) <= MaxEntries
  /\ lst.callbacks = <<>>
  /\ LET es == AssetEntries(files, index.objects)
     IN /\ lst' = ListAddCallback(ListAppendAll(lst, es), "assets")
        /\ appended' = appended \o Accepted(es)
  /\ assets_index' = index
  /\ UNCHANGED <<files, pc, bi, ei, tries, res, error, total_size, fails,
                 headers, conns, requests, would, done, ci, ran>>
  /\ UNCHANGED <<rvars, mvars, pvars, avars, xvars>>

\* dl_list.add_callback(finalize), by ensure_logger: start_mc calls it once,
\* after ensure_assets
AddCallback(cb) ==
  /\ pc = "build"
  /\ \A i \in 1..Len(lst.callbacks) : lst.callbacks[i] # cb
  /\ lst' = ListAddCallback(lst, cb)
  /\ UNCHANGED <<appended, assets_index, files, pc, bi, ei, tries, res,
                 error, total_size, fails, headers, conns, requests, would, done, ci, ran>>
  /\ UNCHANGED <<rvars, mvars, pvars, avars, xvars>>

(***************************************************************************)
(* download_files                                                          *)
(***************************************************************************)
max_try_count == 3

\* the bucket and the entry the loops are at
CurBucket == lst.entries[bi]
CurEntry == CurBucket.list[ei]

\* conn_type = HTTPSConnection if (host[0] == "1") else HTTPConnection; conn_type(host[1:])
OpenConn(host) == [host |-> host[2], tls |-> (host[1] = 1), open |-> TRUE]

\* known_size = (size_target != 0), size_target = 0 if entry.size is None else entry.size
KnownSize(entry) == (IF entry.size = None THEN 0 ELSE entry.size) # 0

\* the verification after the body was read: the error, NoneStr when the attempt passed
Verify(entry, body) ==
  IF entry.size # None /\ Len(body) # entry.size THEN "invalid_size"
  ELSE IF entry.sha1 # NoneStr /\ HexDigest(body) # entry.sha1 THEN "invalid_sha1"
  ELSE NoneStr

\* total_size after an attempt that failed the verification
RollBackNever(total, entry, n) == total
RollBack(total, entry, n) == IF KnownSize(entry) THEN total - n ELSE total

\* fails[entry.url] = error
SetFailDrop(f, url, err) == f
SetFail(f, url, err) == [u \in DOMAIN f \cup {url} |-> IF u = url THEN err ELSE f[u]]

\* after the buckets: raise DownloadError(fails), or go on to the callbacks
AfterBucketsNoRaise(f) == "callbacks"
AfterBuckets(f) == IF DOMAIN f # {} THEN "raised" ELSE "callbacks"

\* the callback the loop over lst.callbacks runs at its i-th iteration
CallbackAt(cbs, i) == cbs[i]

\* download_files(lst): the locals are set; an empty plan skips to the callbacks
StartDownload ==
  /\ pc = "build"
  /\ pc' = IF Len(lst.entries) # 0 THEN "bucket" ELSE "callbacks"
  /\ bi' = 1
  /\ ci' = 1
  /\ total_size' = 0
  /\ fails' = <<>>
  /\ UNCHANGED <<lst, appended, assets_index, files, ei, tries, res, error,
                 headers, conns, requests, would, done, ran>>
  /\ UNCHANGED <<rvars, mvars, pvars, avars, xvars>>

\* for host, entries in lst.entries.items(): open the connection of the bucket
OpenBucket ==
  /\ pc = "bucket"
  /\ bi <= Len(lst.entries)
  /\ conns' = Append(conns, OpenConn(CurBucket.host))
  /\ headers' = "keep-alive"
  /\ ei' = 1
  /\ pc' = "request"
  /\ UNCHANGED <<lst, appended, assets_index, files, bi, tries, res, error,
                 total_size, fails, requests, would, done, ci, ran>>
  /\ UNCHANGED <<rvars, mvars, pvars, avars, xvars>>

\* if last_entry: headers["Connection"] = "close"
ConnectionHeaderKept(h, last_entry) == h
ConnectionHeader(h, last_entry) == IF last_entry THEN "close" ELSE h

\* conn.request("GET", entry.url, None, headers); res = conn.getresponse()
Request ==
  /\ pc = "request"
  /\ ei <= Len(CurBucket.list)
  /\ headers' = ConnectionHeader(headers, ei = Len(CurBucket.list))
  /\ requests' = Append(requests, [host |-> CurBucket.host, url |-> CurEntry.url,
                                   connection |-> headers'])
  /\ res' \in Responses
  /\ would' \in Responses
  /\ error' = NoneStr
  /\ tries' = 0
  /\ pc' = "attempt"
  /\ UNCHANGED <<lst, appended, assets_index, files, bi, ei, total_size,
                 fails, conns, done, ci, ran>>
  /\ UNCHANGED <<rvars, mvars, pvars, avars, xvars>>

\* where the drain goes on after an entry: to the next entry of the bucket,
\* whether the entry failed or not
AfterEntryStop(ok) == IF ok THEN "request" ELSE "raised"
AfterEntry(ok) == "request"

\* the entry is left: the for-else records the failure when no iteration broke out
LeaveEntry(ok, err, n) ==
  /\ done' = Append(done, [entry |-> CurEntry, ok |-> ok, tries |-> tries + 1,
                           got |-> n, err |-> err])
  /\ fails' = IF ok THEN fails ELSE SetFail(fails, CurEntry.url, err)
  /\ would' = NoResponse
  /\ ei' = ei + 1
  /\ pc' = AfterEntry(ok)

\* one iteration of `for _ in range(max_try_count)`
Attempt ==
  /\ pc = "attempt"
  /\ tries < max_try_count
  /\ IF res.status # 200
     THEN \* error = "not_found"; continue
          /\ error' = "not_found"
          /\ UNCHANGED <<files, res, total_size>>
          /\ IF tries + 1 = max_try_count
             THEN LeaveEntry(FALSE, "not_found", 0) /\ UNCHANGED tries
             ELSE tries' = tries + 1 /\ UNCHANGED <<done, fails, would, ei, pc>>
     ELSE \* the body is read to its end into entry.dst, then verified
          LET body == res.body
              err  == Verify(CurEntry, body)
              read == IF KnownSize(CurEntry) THEN total_size + Len(body) ELSE total_size
          IN /\ files' = [files EXCEPT ![CurEntry.dst] = FileOf(body)]
             /\ res' = [res EXCEPT !.body = <<>>]
             /\ IF err = NoneStr
                THEN \* break
                     /\ total_size' = read
                     /\ UNCHANGED error
                     /\ LeaveEntry(TRUE, NoneStr, Len(body)) /\ UNCHANGED tries
                ELSE /\ error' = err
                     /\ total_size' = RollBack(read, CurEntry, Len(body))
                     /\ IF tries + 1 = max_try_count
                        THEN LeaveEntry(FALSE, err, 0) /\ UNCHANGED tries
                        ELSE tries' = tries + 1 /\ UNCHANGED <<done, fails, would, ei, pc>>
  /\ UNCHANGED <<lst, appended, assets_index, bi, headers, conns, requests,
                 ci, ran>>
  /\ UNCHANGED <<rvars, mvars, pvars, avars, xvars>>

\* conn.close(), at the end of the bucket
CloseBucket ==
  /\ pc = "request"
  /\ ei > Len(CurBucket.list)
  /\ conns' = [conns EXCEPT ![Len(conns)].open = FALSE]
  /\ bi' = bi + 1
  /\ pc' = "bucket"
  /\ UNCHANGED <<lst, appended, assets_index, files, ei, tries, res, error,
                 total_size, fails, headers, requests, would, done, ci, ran>>
  /\ UNCHANGED <<rvars, mvars, pvars, avars, xvars>>

\* An OSError of the connection or of the destination file: nothing catches it,
\* the exception leaves download_files and conn.close() is not reached.

\* conn.request(...) or conn.getresponse() raises OSError: the request was sent
\* when it is getresponse that raised
RequestRaises(sent) ==
  /\ pc = "request"
  /\ ei <= Len(CurBucket.list)
  /\ headers' = ConnectionHeader(headers, ei = Len(CurBucket.list))
  /\ requests' = IF sent
                 THEN Append(requests, [host |-> CurBucket.host, url |-> CurEntry.url,
                                        connection |-> headers'])
                 ELSE requests
  /\ pc' = "OSError"
  /\ UNCHANGED <<lst, appended, assets_index, files, bi, ei, tries, res, error,
                 total_size, fails, conns, would, done, ci, ran>>
  /\ UNCHANGED <<rvars, mvars, pvars, avars, xvars>>

\* open(entry.dst, "wb") raises OSError, or res.readinto(buffer) or
\* dst_fp.write(buffer_view) does after n bytes were written
AttemptRaises(opened, n) ==
  /\ pc = "attempt"
  /\ tries < max_try_count
  /\ res.status = 200
  /\ n <= Len(res.body)
  /\ ~opened => n = 0
  /\ files' = IF opened
              THEN [files EXCEPT ![CurEntry.dst] = FileOf(SubSeq(res.body, 1, n))]
              ELSE files
  /\ res' = [res EXCEPT !.body = SubSeq(@, n + 1, Len(@))]
  /\ total_size' = IF KnownSize(CurEntry) THEN total_size + n ELSE total_size
  /\ pc' = "OSError"
  /\ UNCHANGED <<lst, appended, assets_index, bi, ei, tries, error, fails,
                 headers, conns, requests, would, done, ci, ran>>
  /\ UNCHANGED <<rvars, mvars, pvars, avars, xvars>>

\* if len(fails): raise DownloadError(fails)
AfterAllBuckets ==
  /\ pc = "bucket"
  /\ bi > Len(lst.entries)
  /\ pc' = AfterBuckets(fails)
  /\ UNCHANGED <<lst, appended, assets_index, files, bi, ei, tries, res,
                 error, total_size, fails, headers, conns, requests, would, done, ci, ran>>
  /\ UNCHANGED <<rvars, mvars, pvars, avars, xvars>>

\* shutil.copyfile(src, dst) when dst is not a file: the file system after it,
\* or the FileNotFoundError of a source that does not exist
CopyIfAbsent(st, src, dst) ==
  IF st.raised # NoneStr \/ st.files[dst].exists THEN st
  ELSE IF ~st.files[src].exists THEN [st EXCEPT !.raised = "FileNotFoundError"]
  ELSE [st EXCEPT !.files[dst] = st.files[src]]

\* the loop of the finaliser of ensure_assets over assets_index["objects"].keys(),
\* from the objects left; asset_file is the variable of the enclosing function,
\* as the enqueue loop left it
RECURSIVE FinalizeFrom(_, _, _, _)
FinalizeFrom(st, index, objs, asset_file) ==
  IF objs = <<>> THEN st
  ELSE LET asset_id_to_cpy == Head(objs).id
           st1 == IF index.map_to_resources
                  THEN CopyIfAbsent(st, asset_file, ResourcesAssetFile(asset_id_to_cpy))
                  ELSE st
           st2 == IF index.virtual
                  THEN CopyIfAbsent(st1, asset_file, VirtualAssetFile(asset_id_to_cpy))
                  ELSE st1
       IN FinalizeFrom(st2, index, Tail(objs), asset_file)

\* asset_file after the enqueue loop: the object file of the last asset of the index
LastAssetFile(index) == AssetFile(index.objects[Len(index.objects)].hash)

\* finalize() of ensure_assets
FinalizeAssets(fs, index) ==
  LET st == [files |-> fs, raised |-> NoneStr]
  IN IF (index.map_to_resources \/ index.virtual) /\ index.objects # <<>>
     THEN FinalizeFrom(st, index, index.objects, LastAssetFile(index))
     ELSE st

\* for callback in lst.callbacks: callback()
RunCallback ==
  /\ pc = "callbacks"
  /\ ci <= Len(lst.callbacks)
  /\ ran' = Append(ran, CallbackAt(lst.callbacks, ci))
  /\ ci' = ci + 1
  /\ LET st == IF CallbackAt(lst.callbacks, ci) = "assets"
               THEN FinalizeAssets(files, assets_index)
               ELSE [files |-> files, raised |-> NoneStr]
     IN /\ files' = st.files
        \* an exception of a finaliser leaves download_files
        /\ pc' = IF st.raised # NoneStr THEN st.raised ELSE pc
  /\ UNCHANGED <<lst, appended, assets_index, bi, ei, tries, res, error,
                 total_size, fails, headers, conns, requests, would, done>>
  /\ UNCHANGED <<rvars, mvars, pvars, avars, xvars>>

\* download_files returns
Return ==
  /\ pc = "callbacks"
  /\ ci > Len(lst.callbacks)
  /\ pc' = "returned"
  /\ UNCHANGED <<lst, appended, assets_index, files, bi, ei, tries, res,
                 error, total_size, fails, headers, conns, requests, would, done, ci, ran>>
  /\ UNCHANGED <<rvars, mvars, pvars, avars, xvars>>

(***************************************************************************)
(* The specification of the planner and the executor.                      *)
(***************************************************************************)
\* the file system a launch starts from: one asset object is in place from an
\* earlier launch, nothing else is
InitFiles ==
  { [d \in AllDsts |-> IF d = AssetFile("5ba9") THEN FileOf(<<0>>) ELSE NoFile] }

InitDL ==
  /\ lst = NewDownloadList
  /\ appended = <<>>
  /\ assets_index = NoIndex
  /\ files \in InitFiles
  /\ pc = "build"
  /\ bi = 1
  /\ ei = 1
  /\ tries = 0
  /\ res = NoResponse
  /\ error = NoneStr
  /\ total_size = 0
  /\ fails = <<>>
  /\ headers = "none"
  /\ conns = <<>>
  /\ requests = <<>>
  /\ would = NoResponse
  /\ done = <<>>
  /\ ci = 1
  /\ ran = <<>>

NextDL ==
  \/ \E entry \in EntryPool : AppendEntry(entry)
  \/ \E index \in AssetIndexPool : EnsureAssets(index)
  \/ \E cb \in CallbackIds \ {"assets"} : AddCallback(cb)
  \/ StartDownload
  \/ OpenBucket
  \/ Request
  \/ Attempt
  \/ CloseBucket
  \/ \E sent \in BOOLEAN : RequestRaises(sent)
  \/ \E opened \in BOOLEAN, n \in 0..Len(res.body) : AttemptRaises(opened, n)
  \/ AfterAllBuckets
  \/ RunCallback
  \/ Return


(***************************************************************************)
(* JSON values: a dict is a set of <<key, value>> pairs, a list a sequence *)
(***************************************************************************)
JStr(x) == [t |-> "str", v |-> x]
JList(q) == [t |-> "list", v |-> q]
JDict(pairs) == [t |-> "dict", v |-> pairs]
\* Python's None, where a JSON value is optional
JNull == [t |-> "null", v |-> {}]

IsDict(x) == x.t = "dict"
IsList(x) == x.t = "list"
Keys(d) == {p[1] : p \in d.v}
\* k in d, d[k], del d[k]
Has(d, k) == k \in Keys(d)
Get(d, k) == (CHOOSE p \in d.v : p[1] = k)[2]
Del(d, k) == JDict({p \in d.v : p[1] # k})

\* dst[k].extend(other[k])
ExtendChildFirst(a, b) == JList(b.v \o a.v)
Extend(a, b) == JList(a.v \o b.v)

\* CorePortableMC.dict_merge(dst, other): dst after the call
RECURSIVE dict_merge(_, _)
dict_merge(dst, other) ==
  JDict({p \in dst.v : ~Has(other, p[1])}
        \cup { <<k, IF Has(dst, k) /\ IsDict(Get(dst, k)) /\ IsDict(Get(other, k))
                    THEN dict_merge(Get(dst, k), Get(other, k))
                    ELSE IF Has(dst, k) /\ IsList(Get(dst, k)) /\ IsList(Get(other, k))
                    THEN Extend(Get(dst, k), Get(other, k))
                    ELSE Get(other, k)>> : k \in Keys(other) })

\* one iteration of the loop of resolve_version_meta_recursive, after the parent
\* was resolved: del version_meta["inheritsFrom"]; dict_merge(parent_meta, version_meta)
MergeKeepInherits(parent, child) == dict_merge(parent, child)
MergeIntoParent(parent, child) ==
  dict_merge(parent, Del(child, "inheritsFrom"))

(***************************************************************************)
(* The version metadata resolver                                           *)
(***************************************************************************)
\* the largest number of resolve calls made
MaxCalls == 2
\* the largest number of iterations of the loop of resolve_version_meta_recursive
MaxIter == 3

VersionIds == {"c", "p"}

\* the documents the cache files may hold
ParentDocs ==
  { JDict({<<"libraries", JList(<<"A">>)>>,
           <<"arguments", JDict({<<"game", JList(<<"x">>)>>})>>}),
    JDict({<<"libraries", JList(<<"A">>)>>, <<"mainClass", JStr("M")>>}) }
ChildDocs ==
  { JDict({<<"inheritsFrom", JStr("p")>>, <<"libraries", JList(<<"B">>)>>,
           <<"arguments", JDict({<<"game", JList(<<"y">>)>>})>>}),
    JDict({<<"libraries", JList(<<"B">>)>>, <<"mainClass", JStr("N")>>}) }
CachedDocs(id) == IF id = "p" THEN ParentDocs ELSE ChildDocs

\* the document the URL of the manifest entry of a version serves
RemoteDoc(id) ==
  IF id = "p"
  THEN JDict({<<"id", JStr("p")>>, <<"libraries", JList(<<"R">>)>>})
  ELSE JDict({<<"id", JStr("c")>>, <<"inheritsFrom", JStr("p")>>,
              <<"libraries", JList(<<"S">>)>>})

\* a cache file versions/<id>/<id>.json: absent; bytes that are not JSON; bytes
\* that are not text in any encoding json detects; the JSON text null; a document
FileKinds == {"absent", "garbage", "undecodable", "null", "doc"}
CacheFile(kind, doc) == [kind |-> kind, doc |-> doc]
CacheFiles(id) ==
  {CacheFile(k, JNull) : k \in FileKinds \ {"doc"}} \cup {CacheFile("doc", d) : d \in CachedDocs(id)}

\* get_version_dir(main_dir, name)
get_version_dir(name) == <<"versions", name>>

\* json.load(version_meta_fp): the value, or the exception it raises.  Bytes that
\* are not valid UTF-8 make it raise UnicodeDecodeError, which is a ValueError
\* but no JSONDecodeError
JsonLoad(f) ==
  CASE f.kind = "doc"         -> [raised |-> NoneStr, content |-> f.doc]
    [] f.kind = "null"        -> [raised |-> NoneStr, content |-> JNull]
    [] f.kind = "garbage"     -> [raised |-> "JSONDecodeError", content |-> JNull]
    [] f.kind = "undecodable" -> [raised |-> "UnicodeDecodeError", content |-> JNull]

\* what the except clause around json.load lets through
Caught(exc) == exc = "JSONDecodeError"

\* the state resolve_version_meta reads and writes
ResolverState == [cache |-> cache, manifest_loaded |-> manifest_loaded, requested |-> requested]

Raise(exc, st) == [raised |-> exc, content |-> JNull, st |-> st]
ReturnValue(content, st) == [raised |-> NoneStr, content |-> content, st |-> st]

\* the cache file after json.dump(content, version_meta_fp, indent=2)
WriteCacheDoubled(st, name, content) ==
  [st.cache EXCEPT ![name] = CacheFile("doc", dict_merge(content, content))]
WriteCache(st, name, content) == [st.cache EXCEPT ![name] = CacheFile("doc", content)]

\* resolve_version_meta, from the fetch on: content is None
FetchVersionMeta(name, st) ==
  IF ~st.manifest_loaded /\ ~net_up
  THEN \* get_version_manifest(): VersionManifest.load_from_url() fails
       Raise("JsonRequestError", st)
  ELSE LET st1 == [st EXCEPT !.manifest_loaded = TRUE]
       IN IF name \in manifest
          THEN LET st2 == [st1 EXCEPT !.requested = Append(@, name)]
               IN IF ~net_up
                  THEN Raise("JsonRequestError", st2)
                  ELSE ReturnValue(RemoteDoc(name),
                                   [st2 EXCEPT !.cache = WriteCache(st2, name, RemoteDoc(name))])
          ELSE Raise("VersionNotFoundError", st1)

\* resolve_version_meta(main_dir, name): what it raises or returns, and the state after
resolve_version_meta(name, st) ==
  LET f == st.cache[name]
      loaded == IF f.kind # "absent" THEN JsonLoad(f) ELSE [raised |-> NoneStr, content |-> JNull]
  IN IF loaded.raised # NoneStr /\ ~Caught(loaded.raised)
     THEN Raise(loaded.raised, st)
     ELSE IF loaded.content # JNull
     THEN ReturnValue(loaded.content, st)
     ELSE FetchVersionMeta(name, st)

RRIdle ==
  [pc |-> "idle", name |-> "", version_meta |-> JNull, version_dir |-> <<>>, iter |-> 0,
   visited |-> {}]
NoResult == [op |-> "none", name |-> "", raised |-> NoneStr, content |-> JNull, version_dir |-> <<>>]

SetResolverState(st) ==
  /\ cache' = st.cache
  /\ manifest_loaded' = st.manifest_loaded
  /\ requested' = st.requested

\* a call of resolve_version_meta(main_dir, name)
Resolve(name) ==
  /\ rr.pc = "idle"
  /\ ncalls < MaxCalls
  /\ ncalls' = ncalls + 1
  /\ LET r == resolve_version_meta(name, ResolverState)
     IN /\ SetResolverState(r.st)
        /\ result' = [op |-> "resolve_version_meta", name |-> name, raised |-> r.raised,
                      content |-> r.content,
                      version_dir |-> IF r.raised = NoneStr THEN get_version_dir(name) ELSE <<>>]
  /\ UNCHANGED <<manifest, net_up, rr>>
  /\ UNCHANGED <<dlvars, mvars, pvars, avars, xvars>>

\* a call of resolve_version_meta_recursive(main_dir, name), up to its loop
ResolveRecursive(name) ==
  /\ rr.pc = "idle"
  /\ ncalls < MaxCalls
  /\ ncalls' = ncalls + 1
  /\ LET r == resolve_version_meta(name, ResolverState)
     IN /\ SetResolverState(r.st)
        /\ IF r.raised # NoneStr
           THEN /\ result' = [op |-> "resolve_version_meta_recursive", name |-> name,
                              raised |-> r.raised, content |-> JNull, version_dir |-> <<>>]
                /\ UNCHANGED rr
           ELSE /\ rr' = [pc |-> "loop", name |-> name, version_meta |-> r.content,
                          version_dir |-> get_version_dir(name), iter |-> 0,
                          \* history: the versions this call has resolved
                          visited |-> {name}]
                /\ UNCHANGED result
  /\ UNCHANGED <<manifest, net_up>>
  /\ UNCHANGED <<dlvars, mvars, pvars, avars, xvars>>

\* one iteration of `while "inheritsFrom" in version_meta`
MergeParent ==
  /\ rr.pc = "loop"
  /\ Has(rr.version_meta, "inheritsFrom")
  /\ rr.iter < MaxIter
  /\ LET r == resolve_version_meta(Get(rr.version_meta, "inheritsFrom").v, ResolverState)
     IN /\ SetResolverState(r.st)
        /\ IF r.raised # NoneStr
           THEN /\ result' = [op |-> "resolve_version_meta_recursive", name |-> rr.name,
                              raised |-> r.raised, content |-> JNull, version_dir |-> <<>>]
                /\ rr' = RRIdle
           ELSE /\ rr' = [rr EXCEPT !.version_meta = MergeIntoParent(r.content, rr.version_meta),
                                    !.iter = @ + 1,
                                    !.visited = @ \cup {Get(rr.version_meta, "inheritsFrom").v}]
                /\ UNCHANGED result
  /\ UNCHANGED <<manifest, net_up, ncalls>>
  /\ UNCHANGED <<dlvars, mvars, pvars, avars, xvars>>

\* return version_meta, version_dir
ReturnMerged ==
  /\ rr.pc = "loop"
  /\ ~Has(rr.version_meta, "inheritsFrom")
  /\ result' = [op |-> "resolve_version_meta_recursive", name |-> rr.name, raised |-> NoneStr,
                content |-> rr.version_meta, version_dir |-> rr.version_dir]
  /\ rr' = RRIdle
  /\ UNCHANGED <<cache, manifest, manifest_loaded, net_up, requested, ncalls>>
  /\ UNCHANGED <<dlvars, mvars, pvars, avars, xvars>>

\* the network goes down or comes back between two calls
NetChange ==
  /\ rr.pc = "idle"
  /\ ncalls < MaxCalls
  /\ net_up' = ~net_up
  /\ UNCHANGED <<cache, manifest, manifest_loaded, requested, ncalls, result, rr>>
  /\ UNCHANGED <<dlvars, mvars, pvars, avars, xvars>>

ResolverStart ==
  /\ cache \in [VersionIds -> UNION {CacheFiles(id) : id \in VersionIds}]
  /\ \A id \in VersionIds : cache[id] \in CacheFiles(id)
  /\ manifest \in SUBSET VersionIds
  /\ manifest_loaded = FALSE
  /\ net_up = TRUE
  /\ requested = <<>>
  /\ ncalls = 0
  /\ result = NoResult
  /\ rr = RRIdle

\* the resolver at rest, in the specifications that do not use it
IdleResolver ==
  /\ cache = [id \in VersionIds |-> CacheFile("absent", JNull)]
  /\ manifest = {}
  /\ manifest_loaded = FALSE
  /\ net_up = TRUE
  /\ requested = <<>>
  /\ ncalls = 0
  /\ result = NoResult
  /\ rr = RRIdle

NextResolver ==
  \/ \E name \in VersionIds : Resolve(name)
  \/ \E name \in VersionIds : ResolveRecursive(name)
  \/ MergeParent
  \/ ReturnMerged
  \/ NetChange

(***************************************************************************)
(* The resolver on inheritance chains                                      *)
(***************************************************************************)
\* the versions a chain may go through: "g" is installed by hand, the manifest
\* does not know it
ChainIds == VersionIds \cup {"g"}

\* a cached document of the version id that inherits from parent, "" for none
ChainDoc(id, parent) ==
  JDict({<<"id", JStr(id)>>, <<"libraries", JList(<<id>>)>>}
        \cup (IF parent = "" THEN {} ELSE {<<"inheritsFrom", JStr(parent)>>}))
ChainFiles(id) ==
  {CacheFile("absent", JNull)} \cup {CacheFile("doc", ChainDoc(id, parent)) : parent \in ChainIds \cup {""}}

ChainStart ==
  /\ cache \in [ChainIds -> UNION {ChainFiles(id) : id \in ChainIds}]
  /\ \A id \in ChainIds : cache[id] \in ChainFiles(id)
  /\ manifest \in SUBSET VersionIds
  /\ manifest_loaded = FALSE
  /\ net_up = TRUE
  /\ requested = <<>>
  /\ ncalls = 0
  /\ result = NoResult
  /\ rr = RRIdle

(***************************************************************************)
(* dict_merge on its own                                                   *)
(***************************************************************************)
MetaKeys == {"libraries", "arguments"}
\* the values a key of a version document may have, "" for a key that is absent
MetaValues ==
  { JStr(""), JStr("M"), JList(<<"A">>), JList(<<"B">>),
    JDict({<<"game", JList(<<"x">>)>>}),
    JDict({<<"game", JList(<<"y">>)>>}),
    JDict({<<"game", JStr("g")>>, <<"jvm", JList(<<"j">>)>>}) }
MetaDocs ==
  { JDict({<<k, f[k]>> : k \in {kk \in MetaKeys : f[kk] # JStr("")}}) : f \in [MetaKeys -> MetaValues] }
WithParent(d, name) == JDict(d.v \cup {<<"inheritsFrom", JStr(name)>>})

MergeStart ==
  /\ parent_meta \in MetaDocs
  /\ version_meta \in {WithParent(d, "p") : d \in MetaDocs}
  /\ merged = JNull
  /\ mpc = "resolved"

IdleMerge ==
  /\ parent_meta = JDict({})
  /\ version_meta = JDict({})
  /\ merged = JNull
  /\ mpc = "resolved"

\* the body of the loop of resolve_version_meta_recursive, after the parent was resolved
Merge ==
  /\ mpc = "resolved"
  /\ merged' = MergeIntoParent(parent_meta, version_meta)
  /\ mpc' = "merged"
  /\ UNCHANGED <<parent_meta, version_meta>>
  /\ UNCHANGED <<dlvars, rvars, pvars, avars, xvars>>

NextMerge == Merge

(***************************************************************************)
(* The provisioning functions, called on their own                         *)
(***************************************************************************)
NoRet == [raised |-> NoneStr, done |-> FALSE]
NoCall == [op |-> "none"]

IdleCalls ==
  /\ call = NoCall
  /\ ret = NoRet

\* a JSON true or false
JBool(b) == [t |-> "bool", v |-> b]

\* the characters of a string
Chars(str) ==
  CASE str = "10.0"  -> <<"1", "0", ".", "0">>
    [] str = "6.1"   -> <<"6", ".", "1">>
    [] str = "#10.0" -> <<"#", "1", "0", ".", "0">>
    [] OTHER         -> <<>>

\* re.compile(pattern): whether the pattern is anchored at the start, and the
\* characters it matches
ReCompile(pattern) ==
  CASE pattern = "^10\\." -> [anchored |-> TRUE, lit |-> <<"1", "0", ".">>]
    [] pattern = "6\\.1"  -> [anchored |-> FALSE, lit |-> <<"6", ".", "1">>]
    [] OTHER              -> [anchored |-> FALSE, lit |-> <<>>]

\* regex.search(text) is not None
Search(regex, text) ==
  \E i \in 1..(Len(text) - Len(regex.lit) + 1) :
    /\ regex.anchored => i = 1
    /\ SubSeq(text, i, i + Len(regex.lit) - 1) = regex.lit

\* the probed platform: self._mc_os, self._mc_arch, self._mc_archbits, platform.version()
Platform(mc_os, mc_arch, mc_archbits, version) ==
  [mc_os |-> mc_os, mc_arch |-> mc_arch, mc_archbits |-> mc_archbits, version |-> version]
Platforms ==
  { Platform("linux", "x86_64", "64", "#10.0"),
    Platform("windows", "x86_64", "64", "10.0"),
    Platform("windows", "x86", "32", "6.1") }

(***************************************************************************)
(* interpret_rule                                                          *)
(***************************************************************************)
\* the largest number of rules in a list
MaxRules == 2

\* a rule of a version document
Rule(action, os, features) ==
  JDict({<<"action", JStr(action)>>}
        \cup (IF os = JNull THEN {} ELSE {<<"os", os>>})
        \cup (IF features = JNull THEN {} ELSE {<<"features", features>>}))

RulePool ==
  { Rule("allow", JNull, JNull),
    Rule("disallow", JNull, JNull),
    Rule("allow", JDict({<<"name", JStr("linux")>>}), JNull),
    Rule("disallow", JDict({<<"name", JStr("windows")>>, <<"arch", JStr("x86")>>}), JNull),
    Rule("allow", JDict({<<"name", JStr("windows")>>, <<"version", JStr("^10\\.")>>}), JNull),
    Rule("disallow", JDict({<<"version", JStr("6\\.1")>>}), JNull),
    Rule("allow", JNull, JDict({<<"is_demo_user", JBool(TRUE)>>})),
    Rule("disallow", JNull, JDict({<<"is_demo_user", JBool(TRUE)>>,
                                   <<"has_custom_resolution", JBool(FALSE)>>})),
    Rule("allow", JDict({<<"name", JStr("linux")>>}), JDict({})) }

\* the lists of at most n rules
RECURSIVE RuleLists(_)
RuleLists(n) ==
  IF n = 0 THEN {<<>>}
  ELSE RuleLists(n - 1) \cup {Append(l, r) : l \in {q \in RuleLists(n - 1) : Len(q) = n - 1}, r \in RulePool}

\* the features argument: None (the default), or the map start_mc computes, or
\* the map of another caller
FeatureMaps ==
  { JNull,
    JDict({<<"is_demo_user", JBool(FALSE)>>, <<"has_custom_resolution", JBool(FALSE)>>}),
    JDict({<<"is_demo_user", JBool(TRUE)>>, <<"has_custom_resolution", JBool(TRUE)>>}),
    JDict({<<"is_demo_user", JBool(TRUE)>>}) }

\* the os part of a rule makes interpret_rule skip it (continue)
OsSkips(pf, rule) ==
  /\ Has(rule, "os")
  /\ LET ros == Get(rule, "os")
     IN IF Has(ros, "name") /\ Get(ros, "name").v # pf.mc_os THEN TRUE
        ELSE IF Has(ros, "arch") /\ Get(ros, "arch").v # pf.mc_arch THEN TRUE
        ELSE IF Has(ros, "version") /\ ~Search(ReCompile(Get(ros, "version").v), Chars(pf.version))
        THEN TRUE
        ELSE FALSE

\* the loop over rule["features"].items(): feature_valid, or the TypeError that
\* `feat_name not in features` raises when features is None
FeatureValid(rule, features) ==
  IF ~Has(rule, "features") \/ Get(rule, "features").v = {} THEN "valid"
  ELSE IF features = JNull THEN "TypeError"
  ELSE IF \A f \in Get(rule, "features").v : Has(features, f[1]) /\ Get(features, f[1]) = f[2]
  THEN "valid"
  ELSE "invalid"

\* allowed after a rule that was not skipped
Act(allowed, act) ==
  IF act = "allow" THEN TRUE ELSE IF act = "disallow" THEN FALSE ELSE allowed

\* the loop of interpret_rule from the rules left, with allowed so far
RECURSIVE InterpretFrom(_, _, _, _)
InterpretFrom(pf, rules, features, allowed) ==
  IF rules = <<>> THEN [raised |-> NoneStr, done |-> TRUE, value |-> allowed]
  ELSE LET rule == Head(rules)
       IN IF OsSkips(pf, rule) THEN InterpretFrom(pf, Tail(rules), features, allowed)
          ELSE CASE FeatureValid(rule, features) = "TypeError" ->
                      [raised |-> "TypeError", done |-> TRUE, value |-> FALSE]
                 [] FeatureValid(rule, features) = "invalid" ->
                      InterpretFrom(pf, Tail(rules), features, allowed)
                 [] OTHER ->
                      InterpretFrom(pf, Tail(rules), features,
                                    Act(allowed, Get(rule, "action").v))

\* interpret_rule(rules, features)
interpret_rule(pf, rules, features) == InterpretFrom(pf, rules, features, FALSE)

RuleCalls ==
  { [op |-> "interpret_rule", pf |-> pf, rules |-> rules, features |-> features] :
      pf \in Platforms, rules \in RuleLists(MaxRules), features \in FeatureMaps }

InterpretRule ==
  /\ call.op = "interpret_rule"
  /\ ~ret.done
  /\ ret' = interpret_rule(call.pf, call.rules, call.features)
  /\ UNCHANGED call
  /\ UNCHANGED <<dlvars, rvars, mvars, avars, xvars>>

(***************************************************************************)
(* start_mc: the argument vector                                           *)
(***************************************************************************)
\* a string with placeholders is a sequence of pieces: literal text, or ${id}
Lit(str) == [k |-> "lit", v |-> str]
Ph(id) == [k |-> "ph", v |-> id]
Text(str) == <<Lit(str)>>
\* Python's None, where a string, a session or a resolution is optional
NoneText == <<[k |-> "none", v |-> ""]>>
NoAuth == [access_token |-> NoneText, username |-> NoneText, uuid |-> NoneStr]
NoResolution == <<>>

\* arg.replace("${id}", val)
RECURSIVE Replace(_, _, _)
Replace(arg, id, val) ==
  IF arg = <<>> THEN <<>>
  ELSE (IF Head(arg) = Ph(id) THEN val ELSE <<Head(arg)>>) \o Replace(Tail(arg), id, val)

\* the loop over start_args_replacements.items() for one argument
RECURSIVE ReplaceEachBackwards(_, _)
ReplaceEachBackwards(arg, repls) ==
  IF repls = <<>> THEN arg
  ELSE ReplaceEachBackwards(Replace(arg, repls[Len(repls)][1], repls[Len(repls)][2]),
                            SubSeq(repls, 1, Len(repls) - 1))
RECURSIVE ReplaceEach(_, _)
ReplaceEach(arg, repls) ==
  IF repls = <<>> THEN arg
  ELSE ReplaceEach(Replace(arg, Head(repls)[1], Head(repls)[2]), Tail(repls))

\* the loop over raw_args: the arguments after replacement
RECURSIVE ReplaceArgs(_, _)
ReplaceArgs(raw_args, repls) ==
  IF raw_args = <<>> THEN <<>>
  ELSE <<ReplaceEach(Head(raw_args), repls)>> \o ReplaceArgs(Tail(raw_args), repls)

\* legacy_args.split(" ")
RECURSIVE SplitFrom(_, _)
SplitFrom(str, word) ==
  IF str = <<>> THEN <<word>>
  ELSE IF Head(str) = Lit(" ") THEN <<word>> \o SplitFrom(Tail(str), <<>>)
  ELSE SplitFrom(Tail(str), Append(word, Head(str)))
Split(str) == SplitFrom(str, <<>>)

\* interpret_args(args, features): the arguments, or what interpret_rule raised
RECURSIVE interpret_args(_, _, _)
interpret_args(pf, args, features) ==
  IF args = <<>> THEN [raised |-> NoneStr, value |-> <<>>]
  ELSE LET arg == Head(args)
           rest == interpret_args(pf, Tail(args), features)
           rule == IF arg.t = "dict" /\ Has(arg, "rules")
                   THEN interpret_rule(pf, Get(arg, "rules").v, features)
                   ELSE [raised |-> NoneStr, done |-> TRUE, value |-> TRUE]
           mine == IF arg.t = "str" THEN <<arg.v>>
                   ELSE IF ~rule.value THEN <<>>
                   ELSE IF Get(arg, "value").t = "list" THEN Get(arg, "value").v
                   ELSE IF Get(arg, "value").t = "str" THEN <<Get(arg, "value").v>>
                   ELSE <<>>
       IN IF rule.raised # NoneStr THEN [raised |-> rule.raised, value |-> <<>>]
          ELSE IF rest.raised # NoneStr THEN rest
          ELSE [raised |-> NoneStr, value |-> mine \o rest.value]

LEGACY_JVM_ARGUMENTS ==
  << JDict({<<"rules", JList(<<Rule("allow", JDict({<<"name", JStr("osx")>>}), JNull)>>)>>,
            <<"value", JList(<<Text("-XstartOnFirstThread")>>)>>}),
     JDict({<<"rules", JList(<<Rule("allow", JDict({<<"name", JStr("windows")>>}), JNull)>>)>>,
            <<"value", JStr(Text("-XX:HeapDumpPath=MojangTricksIntelDriversForPerformance_javaw.exe_minecraft.exe.heapdump"))>>}),
     JDict({<<"rules", JList(<<Rule("allow", JDict({<<"name", JStr("windows")>>,
                                                    <<"version", JStr("^10\\.")>>}), JNull)>>)>>,
            <<"value", JList(<<Text("-Dos.name=Windows 10"), Text("-Dos.version=10.0")>>)>>}),
     JStr(<<Lit("-Djava.library.path="), Ph("natives_directory")>>),
     JStr(<<Lit("-Dminecraft.launcher.brand="), Ph("launcher_name")>>),
     JStr(<<Lit("-Dminecraft.launcher.version="), Ph("launcher_version")>>),
     JStr(Text("-cp")),
     JStr(<<Ph("classpath")>>) >>

\* uuid[:8]
First8(uuid) == IF uuid = "0123456789abcdef" THEN "01234567" ELSE uuid

\* auth.format_token_argument(legacy)
FormatWithoutToken(auth, legacy) ==
  IF legacy THEN <<Lit("token:"), Lit(":"), Lit(auth.uuid)>>
  ELSE <<>>
format_token_argument(auth, legacy) ==
  IF legacy THEN <<Lit("token:")>> \o auth.access_token \o <<Lit(":"), Lit(auth.uuid)>>
  ELSE auth.access_token

\* start_args_replacements, in the order of the dict
Replacements(c) ==
  LET uuid == IF c.auth # NoAuth THEN c.auth.uuid ELSE c.uuid
      username == IF c.auth # NoAuth THEN c.auth.username ELSE Text(First8(uuid))
  IN << <<"auth_player_name", username>>,
        <<"version_name", Text(c.version)>>,
        <<"game_directory", Text("work")>>,
        <<"assets_root", Text("assets")>>,
        <<"assets_index_name", Text("idx")>>,
        <<"auth_uuid", Text(uuid)>>,
        <<"auth_access_token",
          IF c.auth = NoAuth THEN <<>> ELSE format_token_argument(c.auth, FALSE)>>,
        <<"user_type", Text("mojang")>>,
        <<"version_type", Text(Get(c.version_meta, "type").v)>>,
        <<"auth_session",
          IF c.auth = NoAuth THEN Text("notok") ELSE format_token_argument(c.auth, TRUE)>>,
        <<"game_assets", Text("virtual")>>,
        <<"user_properties", Text("{}")>>,
        <<"natives_directory", Text("bin")>>,
        <<"launcher_name", Text("portablemc")>>,
        <<"launcher_version", Text("1.1.4-pre1")>>,
        <<"classpath", Text("cp")>> >>
     \o (IF c.resolution # NoResolution
         THEN << <<"resolution_width", Text(c.resolution[1])>>,
                 <<"resolution_height", Text(c.resolution[2])>> >>
         ELSE <<>>)

\* start_mc from "Computing features" to raw_args: the tokens before the
\* replacement, or what interpret_rule raised
RawArgs(c) ==
  LET features == JDict({<<"is_demo_user", JBool(c.demo)>>,
                         <<"has_custom_resolution", JBool(c.resolution # NoResolution)>>})
      legacy == Has(c.version_meta, "minecraftArguments")
      jvm_args == interpret_args(c.pf,
                                 IF legacy THEN LEGACY_JVM_ARGUMENTS
                                 ELSE Get(Get(c.version_meta, "arguments"), "jvm").v,
                                 features)
      main_class == Get(c.version_meta, "mainClass").v
      game_args == IF legacy
                   THEN [raised |-> NoneStr, value |-> Split(Get(c.version_meta, "minecraftArguments").v)]
                   ELSE interpret_args(c.pf, Get(Get(c.version_meta, "arguments"), "game").v, features)
      raw_args == jvm_args.value
                  \o (IF c.logging_arg # NoneText THEN <<c.logging_arg>> ELSE <<>>)
                  \o (IF main_class = "net.minecraft.launchwrapper.Launch"
                      THEN <<<<Lit("-Dminecraft.client.jar="), Lit("v.jar")>>>> ELSE <<>>)
                  \o <<Text(main_class)>>
                  \o game_args.value
                  \o (IF c.disable_multiplayer THEN <<Text("--disableMultiplayer")>> ELSE <<>>)
                  \o (IF c.disable_chat THEN <<Text("--disableChat")>> ELSE <<>>)
                  \o (IF c.server_addr # NoneText THEN <<Text("--server"), c.server_addr>> ELSE <<>>)
                  \o (IF c.server_port # NoneStr THEN <<Text("--port"), Text(c.server_port)>> ELSE <<>>)
  IN IF jvm_args.raised # NoneStr THEN [raised |-> jvm_args.raised, value |-> <<>>]
     ELSE IF game_args.raised # NoneStr THEN [raised |-> game_args.raised, value |-> <<>>]
     ELSE [raised |-> NoneStr, value |-> raw_args]

\* start_mc from "Computing features" to the argument vector handed to the runner
StartArgs(c) ==
  LET raw == RawArgs(c)
  IN IF raw.raised # NoneStr THEN [raised |-> raw.raised, done |-> TRUE, value |-> <<>>]
     ELSE [raised |-> NoneStr, done |-> TRUE,
           value |-> c.jvm \o ReplaceArgs(raw.value, Replacements(c))]

\* the version documents start_mc builds arguments from: one with arguments, one
\* with minecraftArguments
ModernMeta ==
  JDict({<<"type", JStr("release")>>, <<"mainClass", JStr("net.minecraft.client.main.Main")>>,
         <<"arguments",
           JDict({<<"jvm", JList(<<JStr(Text("-cp")), JStr(<<Ph("classpath")>>)>>)>>,
                  <<"game",
                    JList(<<JStr(Text("--username")), JStr(<<Ph("auth_player_name")>>),
                            JDict({<<"rules", JList(<<Rule("allow", JNull,
                                       JDict({<<"is_demo_user", JBool(TRUE)>>}))>>)>>,
                                   <<"value", JStr(Text("--demo"))>>})>>)>>})>>})
LegacyMeta ==
  JDict({<<"type", JStr("old_beta")>>, <<"mainClass", JStr("net.minecraft.launchwrapper.Launch")>>,
         <<"minecraftArguments",
           JStr(<<Ph("auth_player_name"), Lit(" "), Ph("auth_session"), Lit(" "),
                  Lit("--gameDir"), Lit(" "), Ph("game_directory")>>)>>})

\* a session: BaseAuthSession(access_token, username, uuid)
Session == [access_token |-> Text("tok"), username |-> Text("steve"), uuid |-> "ffff"]

\* sessions whose fields hold the text of a placeholder: a username that names a
\* later key of the table, a username that names its own key, and a token
\* that names an earlier key
NamedSessions ==
  { [access_token |-> Text("tok"), username |-> <<Ph("classpath")>>, uuid |-> "ffff"],
    [access_token |-> Text("tok"), username |-> <<Lit("x"), Ph("auth_player_name")>>,
     uuid |-> "ffff"],
    [access_token |-> <<Ph("auth_player_name"), Ph("user_type")>>,
     username |-> Text("steve"), uuid |-> "ffff"] }

\* a version document whose game arguments hold a key twice in one token, a key
\* start_mc has no value for, and two keys side by side
PlaceholderMeta ==
  JDict({<<"type", JStr("release")>>, <<"mainClass", JStr("net.minecraft.client.main.Main")>>,
         <<"arguments",
           JDict({<<"jvm", JList(<<JStr(Text("-cp")), JStr(<<Ph("classpath")>>)>>)>>,
                  <<"game",
                    JList(<<JStr(<<Ph("auth_player_name")>>),
                            JStr(<<Ph("version_name"), Lit("/"), Ph("version_name")>>),
                            JStr(<<Lit("--clientId="), Ph("clientid")>>),
                            JStr(<<Ph("auth_access_token"), Ph("auth_player_name")>>)>>)>>})>>})

\* the server addresses a caller may give: None, a host name, and two that hold
\* the text of a placeholder
ServerAddrs == {NoneText, Text("mc.example.org"), <<Ph("auth_access_token")>>,
                <<Lit("h."), Ph("version_name")>>}

ArgsCalls ==
  { [op |-> "start_args", pf |-> pf, version |-> "v", version_meta |-> meta,
     jvm |-> <<Text("java"), Text("-Xmx2G")>>, logging_arg |-> NoneText,
     uuid |-> "0123456789abcdef", auth |-> auth, demo |-> demo, resolution |-> NoResolution,
     disable_multiplayer |-> dm, disable_chat |-> dc,
     server_addr |-> addr, server_port |-> port] :
      pf \in Platforms, meta \in {ModernMeta, LegacyMeta}, auth \in {NoAuth, Session},
      demo \in BOOLEAN, dm \in BOOLEAN, dc \in BOOLEAN,
      addr \in ServerAddrs, port \in {NoneStr, "25565"} }
  \cup
  { [op |-> "start_args", pf |-> pf, version |-> "v", version_meta |-> meta,
     jvm |-> <<Text("java"), Text("-Xmx2G")>>, logging_arg |-> NoneText,
     uuid |-> "0123456789abcdef", auth |-> auth, demo |-> FALSE, resolution |-> NoResolution,
     disable_multiplayer |-> FALSE, disable_chat |-> FALSE,
     server_addr |-> NoneText, server_port |-> NoneStr] :
      pf \in Platforms, meta \in {PlaceholderMeta, LegacyMeta},
      auth \in NamedSessions \cup {NoAuth, Session} }

ComputeStartArgs ==
  /\ call.op = "start_args"
  /\ ~ret.done
  /\ ret' = StartArgs(call)
  /\ UNCHANGED call
  /\ UNCHANGED <<dlvars, rvars, mvars, avars, xvars>>

(***************************************************************************)
(* ensure_libraries                                                        *)
(***************************************************************************)
\* the largest number of libraries in a version document
MaxLibs == 2

\* str.split(sep)
RECURSIVE SplitOnFrom(_, _, _)
SplitOnFrom(str, sep, word) ==
  IF str = <<>> THEN <<word>>
  ELSE IF Head(str) = Lit(sep) THEN <<word>> \o SplitOnFrom(Tail(str), sep, <<>>)
  ELSE SplitOnFrom(Tail(str), sep, Append(word, Head(str)))
SplitOn(str, sep) == SplitOnFrom(str, sep, <<>>)

\* a download info of a version document: path (its components), url, size, sha1
Info(p, url, sz, sha1) == [path |-> p, url |-> url, size |-> sz, sha1 |-> sha1]

\* DownloadEntry.from_version_meta_info(info, dst, name=name)
from_version_meta_info(info, dst, name) ==
  DownloadEntry(info.url, dst, info.size, info.sha1, name)

\* "<group>:<package>:<version>" with the group a.x and the version 1
LibName(package) ==
  <<Lit("a"), Lit("."), Lit("x"), Lit(":"), Lit(package), Lit(":"), Lit("1")>>

\* a/x/<package>/1/<package>-1<suffix>.jar
LibPath(package, suffix) ==
  <<Text("a"), Text("x"), Text(package), Text("1"),
    <<Lit(package), Lit("-"), Lit("1")>> \o suffix \o <<Lit(".jar")>> >>

Artifact(package) ==
  Info(LibPath(package, <<>>), MkUrl("https", "libraries.minecraft.net", <<package>>),
       1, "bf8b")
Classifier(package, cl) ==
  Info(LibPath(package, <<Lit("-")>> \o cl),
       MkUrl("https", "libraries.minecraft.net", <<package, "natives">>), 1, "5ba9")

\* the classifiers of the pool, and the templates the natives mappings hold
NativesLinux == <<Lit("natives-linux-"), Ph("arch")>>
NativesWindows == <<Lit("natives-windows-"), Ph("arch")>>
NativesOsx == <<Lit("natives-osx")>>
ClassifierNames ==
  { <<Lit("natives-linux-"), Lit("64")>>, <<Lit("natives-linux-"), Lit("32")>>,
    <<Lit("natives-windows-"), Lit("64")>>, <<Lit("natives-windows-"), Lit("32")>> }

MavenUrl == MkUrl("https", "maven.example.org", <<>>)

\* the library objects a version document may hold
LibPool ==
  { \* an artifact and nothing else
    JDict({<<"name", LibName("art")>>,
           <<"downloads", JDict({<<"artifact", Artifact("art")>>})>>}),
    \* natives for linux and windows, their classifiers, and an artifact
    JDict({<<"name", LibName("nat")>>,
           <<"natives", JDict({<<"linux", NativesLinux>>, <<"windows", NativesWindows>>})>>,
           <<"downloads", JDict({<<"artifact", Artifact("nat")>>,
                                 <<"classifiers",
                                   JDict({<<cl, Classifier("nat", cl)>> : cl \in ClassifierNames})>>})>>}),
    \* natives for osx only, its classifier, and an artifact
    JDict({<<"name", LibName("osx")>>,
           <<"natives", JDict({<<"osx", NativesOsx>>})>>,
           <<"downloads", JDict({<<"artifact", Artifact("osx")>>,
                                 <<"classifiers",
                                   JDict({<<NativesOsx, Classifier("osx", NativesOsx)>>})>>})>>}),
    \* natives for osx only, no classifiers, an artifact
    JDict({<<"name", LibName("osxart")>>,
           <<"natives", JDict({<<"osx", NativesOsx>>})>>,
           <<"downloads", JDict({<<"artifact", Artifact("osxart")>>})>>}),
    \* an empty downloads object, with and without a url
    JDict({<<"name", LibName("emptyurl")>>, <<"downloads", JDict({})>>, <<"url", MavenUrl>>}),
    JDict({<<"name", LibName("empty")>>, <<"downloads", JDict({})>>}),
    \* no downloads object, with and without a url
    JDict({<<"name", LibName("mvnurl")>>, <<"url", MavenUrl>>}),
    JDict({<<"name", LibName("mvn")>>}),
    \* an artifact for linux only
    JDict({<<"name", LibName("rules")>>,
           <<"rules", <<Rule("allow", JDict({<<"name", JStr("linux")>>}), JNull)>> >>,
           <<"downloads", JDict({<<"artifact", Artifact("rules")>>})>>}) }

\* version_meta["libraries"]: the lists of at most n libraries
RECURSIVE LibLists(_)
LibLists(n) ==
  IF n = 0 THEN {<<>>}
  ELSE LibLists(n - 1) \cup {Append(l, lib) : l \in {q \in LibLists(n - 1) : Len(q) = n - 1}, lib \in LibPool}

\* path.join(libraries_dir, ...)
LibrariesDir(p) == <<Text("libraries")>> \o p

\* the libraries directory before the call: nothing, or every jar of the pool
\* with the given size
Disk(present, sz) == [present |-> present, size |-> sz]
Disks == {Disk(FALSE, 0), Disk(TRUE, 1), Disk(TRUE, 2)}
IsFile(disk, p) == disk.present
GetSize(disk, p) == disk.size

NoLibs == [classpath_libs |-> <<>>, native_libs |-> <<>>, entries |-> <<>>]

\* what ensure_libraries raised
LibRaise(exc) == [raised |-> exc, done |-> TRUE, value |-> NoLibs]

\* the branch of a library that has "downloads": lib_name, lib_dl_info and
\* lib_type after the if / elif, or the KeyError of lib_dl["classifiers"][...]
Classify(pf, lib_obj) ==
  LET lib_dl == Get(lib_obj, "downloads")
      none == [raised |-> NoneStr, lib_name |-> Get(lib_obj, "name"), lib_type |-> NoneStr,
               lib_dl_info |-> Info(<<>>, MkUrl("", "", <<>>), None, NoneStr)]
  IN IF Has(lib_obj, "natives") /\ Has(lib_dl, "classifiers")
     THEN LET lib_natives == Get(lib_obj, "natives")
          IN IF Has(lib_natives, pf.mc_os)
             THEN LET tpl == Get(lib_natives, pf.mc_os)
                      lib_native_classifier ==
                        IF pf.mc_archbits # NoneStr
                        THEN Replace(tpl, "arch", Text(pf.mc_archbits))
                        ELSE tpl
                  IN IF ~Has(Get(lib_dl, "classifiers"), lib_native_classifier)
                     THEN [none EXCEPT !.raised = "KeyError"]
                     ELSE [raised |-> NoneStr,
                           lib_name |-> Get(lib_obj, "name") \o <<Lit(":")>> \o lib_native_classifier,
                           lib_type |-> "native",
                           lib_dl_info |-> Get(Get(lib_dl, "classifiers"), lib_native_classifier)]
             ELSE none
     ELSE IF Has(lib_dl, "artifact")
     THEN [raised |-> NoneStr, lib_name |-> Get(lib_obj, "name"), lib_type |-> "classpath",
           lib_dl_info |-> Get(lib_dl, "artifact")]
     ELSE none

\* the branch of a library without "downloads": the Maven path of its name
MavenPath(lib_name) ==
  LET lib_name_parts == SplitOn(lib_name, ":")
      maven_vendor_split == SplitOn(lib_name_parts[1], ".")
      maven_package == lib_name_parts[2]
      maven_version == lib_name_parts[3]
      maven_jar == maven_package \o <<Lit("-")>> \o maven_version \o <<Lit(".jar")>>
  IN maven_vendor_split \o <<maven_package, maven_version, maven_jar>>

\* "{}{}".format(lib_obj["url"], "/".join(...))
MavenEntryUrl(url, p) == MkUrl(url.scheme, url.netloc, url.path \o p)

\* classpath_libs / native_libs after the library of type lib_type at lib_path
AddLib(acc, lib_type, lib_path) ==
  IF lib_type = "classpath"
  THEN [acc EXCEPT !.classpath_libs = Append(@, lib_path)]
  ELSE IF lib_type = "native"
  THEN [acc EXCEPT !.native_libs = Append(@, lib_path)]
  ELSE acc

\* the loop over version_meta["libraries"] from the libraries left, with the
\* lists built so far
RECURSIVE LibrariesFrom(_, _, _, _)
LibrariesFrom(pf, disk, libs, acc) ==
  IF libs = <<>> THEN [raised |-> NoneStr, done |-> TRUE, value |-> acc]
  ELSE
    LET lib_obj == Head(libs)
        rest == Tail(libs)
        allowed == IF Has(lib_obj, "rules")
                   THEN interpret_rule(pf, Get(lib_obj, "rules"), JNull)
                   ELSE [raised |-> NoneStr, done |-> TRUE, value |-> TRUE]
    IN IF allowed.raised # NoneStr THEN LibRaise(allowed.raised)
       ELSE IF ~allowed.value THEN LibrariesFrom(pf, disk, rest, acc)
       ELSE IF Has(lib_obj, "downloads")
       THEN LET c == Classify(pf, lib_obj)
                lib_path == LibrariesDir(c.lib_dl_info.path)
                download_entry == from_version_meta_info(c.lib_dl_info, lib_path, c.lib_name)
                missing == ~IsFile(disk, lib_path) \/ GetSize(disk, lib_path) # download_entry.size
            IN IF c.raised # NoneStr THEN LibRaise(c.raised)
               ELSE IF c.lib_type = NoneStr THEN LibrariesFrom(pf, disk, rest, acc)
               ELSE IF missing /\ AppendRaises(download_entry) THEN LibRaise("ValueError")
               ELSE LibrariesFrom(pf, disk, rest,
                      AddLib(IF missing THEN [acc EXCEPT !.entries = Append(@, download_entry)]
                             ELSE acc,
                             c.lib_type, lib_path))
       ELSE LET lib_name == Get(lib_obj, "name")
            IN IF Len(SplitOn(lib_name, ":")) < 3 THEN LibRaise("IndexError")
               ELSE LET lib_path == LibrariesDir(MavenPath(lib_name))
                    IN IF IsFile(disk, lib_path)
                       THEN LibrariesFrom(pf, disk, rest, AddLib(acc, "classpath", lib_path))
                       ELSE IF ~Has(lib_obj, "url") THEN LibrariesFrom(pf, disk, rest, acc)
                       ELSE LET e == DownloadEntry(
                                       MavenEntryUrl(Get(lib_obj, "url"), MavenPath(lib_name)),
                                       lib_path, None, NoneStr, lib_name)
                            IN IF AppendRaises(e) THEN LibRaise("ValueError")
                               ELSE LibrariesFrom(pf, disk, rest,
                                      AddLib([acc EXCEPT !.entries = Append(@, e)],
                                             "classpath", lib_path))

\* ensure_libraries(main_dir, version_meta, dl_list): what it returns or raises,
\* and the entries it appended to dl_list
ensure_libraries(pf, disk, libraries) == LibrariesFrom(pf, disk, libraries, NoLibs)

LibraryCalls ==
  { [op |-> "ensure_libraries", pf |-> pf, disk |-> disk, libraries |-> libs] :
      pf \in Platforms, disk \in Disks, libs \in LibLists(MaxLibs) }

EnsureLibraries ==
  /\ call.op = "ensure_libraries"
  /\ ~ret.done
  /\ ret' = ensure_libraries(call.pf, call.disk, call.libraries)
  /\ UNCHANGED call
  /\ UNCHANGED <<dlvars, rvars, mvars, avars, xvars>>

(***************************************************************************)
(* ensure_logger                                                           *)
(***************************************************************************)
\* a path, as a piece of an argument
PathText(p) == <<[k |-> "path", v |-> p]>>

\* version_meta["logging"]["client"]: the vendor argument template and the
\* download info of the vendor config file
ClientLogging(argument) ==
  JDict({<<"argument", argument>>,
         <<"file", [id |-> "client.xml",
                    url |-> MkUrl("https", "launcher.mojang.com", <<"client.xml">>),
                    size |-> 1, sha1 |-> "bf8b"]>>})

LoggingArguments ==
  { <<Lit("-Dlog4j.configurationFile="), Ph("path")>>, <<Lit("-Dlog4j.configurationFile=log.xml")>> }

\* the version documents, as far as ensure_logger reads them
LoggingMetas ==
  { JDict({}), JDict({<<"logging", JDict({})>>}) }
  \cup { JDict({<<"logging", JDict({<<"client", ClientLogging(a)>>})>>}) : a \in LoggingArguments }

\* path.join(assets_dir, "log_configs")
LogConfigDir == <<Text("assets"), Text("log_configs")>>

\* str.replace("${path}", new): the TypeError of an argument that is not a str
\* is raised whether the placeholder occurs or not
StrReplace(arg, id, new) ==
  IF new.t # "str" THEN [raised |-> "TypeError", value |-> NoneText]
  ELSE [raised |-> NoneStr, value |-> Replace(arg, id, PathText(new.v))]

\* ensure_logger(assets_dir, version_meta, dl_list, better_logging): what it
\* returns or raises, the entries it appended and the finalisers it added
ensure_logger(disk, meta, better_logging) ==
  LET nothing == [raised |-> NoneStr, done |-> TRUE, value |-> NoneText,
                  entries |-> <<>>, callbacks |-> <<>>]
  IN IF ~Has(meta, "logging") THEN nothing
     ELSE IF ~Has(Get(meta, "logging"), "client") THEN nothing
     ELSE
       LET client_logging == Get(Get(meta, "logging"), "client")
           logging_file_info == Get(client_logging, "file")
           logging_file == Append(LogConfigDir, Text(logging_file_info.id))
           download_entry == DownloadEntry(logging_file_info.url, logging_file,
                                           logging_file_info.size, logging_file_info.sha1,
                                           logging_file_info.id)
           logging_dirty == ~IsFile(disk, logging_file)
                              \/ GetSize(disk, logging_file) # download_entry.size
           real_logging_file ==
             IF better_logging
             THEN JStr(Append(LogConfigDir, <<Lit("portablemc-"), Lit(logging_file_info.id)>>))
             ELSE JBool(logging_dirty)
           replaced == StrReplace(Get(client_logging, "argument"), "path", real_logging_file)
       IN [raised |-> replaced.raised, done |-> TRUE, value |-> replaced.value,
           entries |-> IF logging_dirty THEN <<download_entry>> ELSE <<>>,
           callbacks |-> <<"logger">>]

LoggerCalls ==
  { [op |-> "ensure_logger", disk |-> disk, version_meta |-> meta, better_logging |-> b] :
      disk \in Disks, meta \in LoggingMetas, b \in BOOLEAN }

EnsureLogger ==
  /\ call.op = "ensure_logger"
  /\ ~ret.done
  /\ ret' = ensure_logger(call.disk, call.version_meta, call.better_logging)
  /\ UNCHANGED call
  /\ UNCHANGED <<dlvars, rvars, mvars, avars, xvars>>

(***************************************************************************)
(* ensure_jvm                                                              *)
(***************************************************************************)
\* get_minecraft_jvm(): the key of the platform in the JVM index, NoneStr for None
get_minecraft_jvm(pf) ==
  IF pf.mc_os = NoneStr THEN NoneStr
  ELSE IF pf.mc_os = "osx" THEN "mac-os"
  ELSE IF pf.mc_os \notin {"linux", "windows"} THEN NoneStr
  ELSE LET arch_jvm == IF pf.mc_os = "linux" THEN <<"linux-i386", "linux">>
                       ELSE <<"windows-x86", "windows-x64">>
       IN IF pf.mc_arch = "x86" THEN arch_jvm[1]
          ELSE IF pf.mc_arch = "x86_64" THEN arch_jvm[2]
          ELSE NoneStr

\* the platforms ensure_jvm may run on: those of the rules, osx, a machine that
\* is neither x86 nor x86_64, and a system get_minecraft_os does not know
JvmPlatforms ==
  Platforms \cup { Platform("osx", "x86_64", "64", "21.0"),
                   Platform("linux", "unknown", "64", "#10.0"),
                   Platform(NoneStr, "x86_64", "64", "1.0") }

\* a file of a JVM manifest
JvmFile(type, executable) ==
  [type |-> type, executable |-> executable,
   raw |-> Info(<<>>, MkUrl("https", "launcher.mojang.com", <<"jvm">>), 1, "bf8b")]

\* the manifest of the JVM of the pool: jvm_manifest.items(), in order
JvmManifest ==
  << <<"bin/java", JvmFile("file", TRUE)>>,
     <<"legal", JvmFile("directory", FALSE)>>,
     <<"lib/rt.jar", JvmFile("file", FALSE)>> >>

\* an entry of the list of a component: version.name and the manifest behind manifest.url
JvmMeta(name) == [version |-> name, manifest |-> JvmManifest]

\* what the request of JVM_META_URL answers: the index, platform key ->
\* component -> list
JvmIndexes ==
  { JDict({}),
    JDict({<<"linux", JDict({<<"jre-legacy", <<JvmMeta("8u51")>> >>})>>,
           <<"windows-x64", JDict({<<"java-runtime-alpha", <<JvmMeta("16")>> >>})>>,
           <<"windows-x86", JDict({<<"jre-legacy", <<>> >>})>>,
           <<"mac-os", JDict({})>>}) }

JvmVersionTypes == {"jre-legacy", "java-runtime-alpha"}

NoJvm == [jvm_version |-> NoneStr, jvm_exec |-> <<>>, entries |-> <<>>, callbacks |-> <<>>,
          jvm_exec_files |-> <<>>]

\* the loop over jvm_manifest.items(): the entries appended and jvm_exec_files
RECURSIVE JvmFilesFrom(_, _, _)
JvmFilesFrom(jvm_dir, files_left, acc) ==
  IF files_left = <<>> THEN acc
  ELSE LET jvm_file_path_suffix == Head(files_left)[1]
           jvm_file == Head(files_left)[2]
           jvm_file_path == Append(jvm_dir, jvm_file_path_suffix)
       IN IF jvm_file.type = "file"
          THEN JvmFilesFrom(jvm_dir, Tail(files_left),
                 [acc EXCEPT
                    !.entries = Append(@, from_version_meta_info(jvm_file.raw, jvm_file_path,
                                                                 jvm_file_path_suffix)),
                    !.jvm_exec_files = IF jvm_file.executable THEN Append(@, jvm_file_path)
                                       ELSE @])
          ELSE JvmFilesFrom(jvm_dir, Tail(files_left), acc)

\* raise exc(kind) in ensure_jvm: dl_list is as it was given
JvmRaiseAfterCallback(exc, kind) ==
  [raised |-> exc, kind |-> kind, done |-> TRUE,
   value |-> [NoJvm EXCEPT !.callbacks = <<"jvm">>]]
JvmRaise(exc, kind) == [raised |-> exc, kind |-> kind, done |-> TRUE, value |-> NoJvm]

\* ensure_jvm(main_dir, jvm_version_type, dl_list): what it returns or raises,
\* the entries it appended and the finalisers it added
ensure_jvm(pf, all_jvm_meta, jvm_version_type, exec_present) ==
  LET jvm_arch == get_minecraft_jvm(pf)
  IN IF jvm_arch = NoneStr THEN JvmRaise("JvmLoadingError", "not_found")
     ELSE IF ~Has(all_jvm_meta, jvm_arch)
     THEN JvmRaise("JvmLoadingError", "unsupported_jvm_arch")
     ELSE IF ~Has(Get(all_jvm_meta, jvm_arch), jvm_version_type)
     THEN JvmRaise("JvmLoadingError", "unsupported_jvm_version")
     ELSE IF Get(Get(all_jvm_meta, jvm_arch), jvm_version_type) = <<>>
     THEN JvmRaise("IndexError", NoneStr)
     ELSE
       LET jvm_meta == Get(Get(all_jvm_meta, jvm_arch), jvm_version_type)[1]
           jvm_dir == <<"jvm", jvm_version_type>>
           jvm_exec == jvm_dir \o <<"bin", IF pf.mc_os = "windows" THEN "javaw.exe" ELSE "java">>
           start == [NoJvm EXCEPT !.jvm_version = jvm_meta.version, !.jvm_exec = jvm_exec,
                                  !.callbacks = <<"jvm">>]
       IN [raised |-> NoneStr, kind |-> NoneStr, done |-> TRUE,
           value |-> IF ~exec_present THEN JvmFilesFrom(jvm_dir, jvm_meta.manifest, start)
                     ELSE start]

JvmCalls ==
  { [op |-> "ensure_jvm", pf |-> pf, all_jvm_meta |-> idx, jvm_version_type |-> typ,
     exec_present |-> present] :
      pf \in JvmPlatforms, idx \in JvmIndexes, typ \in JvmVersionTypes, present \in BOOLEAN }

EnsureJvm ==
  /\ call.op = "ensure_jvm"
  /\ ~ret.done
  /\ ret' = ensure_jvm(call.pf, call.all_jvm_meta, call.jvm_version_type, call.exec_present)
  /\ UNCHANGED call
  /\ UNCHANGED <<dlvars, rvars, mvars, avars, xvars>>

(***************************************************************************)
(* format_token_argument, called on two sessions of one uuid               *)
(***************************************************************************)
\* the longest access token
MaxToken == 2

\* the access tokens, character by character; the separator of the legacy
\* form is one of the characters
TokenChars == {"a", ":"}
AccessTokens == UNION { [1..n -> {Lit(c) : c \in TokenChars}] : n \in 0..MaxToken }

TokenCalls ==
  { [op |-> "format_token_argument",
     auth |-> [access_token |-> tok, username |-> "N", uuid |-> uuid],
     other |-> [access_token |-> tok2, username |-> "N", uuid |-> uuid],
     legacy |-> legacy] :
      tok \in AccessTokens, tok2 \in AccessTokens, uuid \in TokenChars, legacy \in BOOLEAN }

FormatTokenArgument ==
  /\ call.op = "format_token_argument"
  /\ ~ret.done
  /\ ret' = [done |-> TRUE, raised |-> NoneStr,
             value |-> format_token_argument(call.auth, call.legacy),
             other |-> format_token_argument(call.other, call.legacy)]
  /\ UNCHANGED call
  /\ UNCHANGED <<dlvars, rvars, mvars, avars, xvars>>

(***************************************************************************)
(* MicrosoftAuthSession.authenticate_base                                  *)
(***************************************************************************)
MS_OAUTH_TOKEN_URL == "https://login.live.com/oauth20_token.srf"
MS_XBL_AUTH_URL == "https://user.auth.xboxlive.com/user/authenticate"
MS_XSTS_AUTH_URL == "https://xsts.auth.xboxlive.com/xsts/authorize"
MC_AUTH_URL == "https://api.minecraftservices.com/authentication/login_with_xbox"
MC_PROFILE_URL == "https://api.minecraftservices.com/minecraft/profile"

\* what a server answers: the status and the body, a JSON document, text
\* that is no JSON, or no answer at all (the connection fails)
Answer(status, content) == [status |-> status, content |-> content]
NotJson == [t |-> "notjson", v |-> {}]
NoAnswer == [t |-> "down", v |-> {}]

\* a request as the server sees it: the method, the URL, and the part of the
\* payload or of the headers that the caller computed
HttpRequest(method, url, input) == [method |-> method, url |-> url, input |-> input]

\* json_request: the status and the document, or JsonRequestError
json_request(answer, ignore_error) ==
  IF answer.content = NoAnswer
  THEN [raised |-> "JsonRequestError", status |-> 0, doc |-> JDict({})]
  ELSE IF answer.content = NotJson
  THEN IF ignore_error THEN [raised |-> NoneStr, status |-> answer.status, doc |-> JDict({})]
       ELSE [raised |-> "JsonRequestError", status |-> answer.status, doc |-> JDict({})]
  ELSE [raised |-> NoneStr, status |-> answer.status, doc |-> answer.content]

\* ms_request and mc_request: json_request without ignore_error
ms_request(answer) == json_request(answer, FALSE)
mc_request(answer) == json_request(answer, FALSE)

\* res["DisplayClaims"]["xui"][0]["uhs"]
HasUhs(doc) ==
  /\ Has(doc, "DisplayClaims")
  /\ Has(Get(doc, "DisplayClaims"), "xui")
  /\ Get(Get(doc, "DisplayClaims"), "xui").v # <<>>
  /\ Has(Get(Get(doc, "DisplayClaims"), "xui").v[1], "uhs")
Uhs(doc) == Get(Get(Get(doc, "DisplayClaims"), "xui").v[1], "uhs").v

\* "d={}".format(res["access_token"])
RpsTicket(access_token) == <<Lit("d="), Lit(access_token)>>

\* "XBL3.0 x={};{}".format(xbl_user_hash, xsts_token)
IdentityTokenSwapped(xbl_user_hash, xsts_token) ==
  <<Lit("XBL3.0 x="), Lit(xsts_token), Lit(";"), Lit(xbl_user_hash)>>
IdentityToken(xbl_user_hash, xsts_token) ==
  <<Lit("XBL3.0 x="), Lit(xbl_user_hash), Lit(";"), Lit(xsts_token)>>

\* "Bearer {}".format(bearer)
Bearer(bearer) == <<Lit("Bearer "), Lit(bearer)>>

\* the AuthError of the profile stage, "None" when there is none
ProfileErrorBy200(status, doc) ==
  IF status # 200 THEN "microsoft.error" ELSE NoneStr
ProfileError(status, doc) ==
  IF status = 404 THEN "microsoft.does_not_own_minecraft"
  ELSE IF status = 401 THEN "microsoft.outdated_token"
  ELSE IF Has(doc, "error") \/ status # 200 THEN "microsoft.error"
  ELSE NoneStr

\* res.get("errorMessage", res.get("error", "Unknown error"))
ErrorMessage(doc) ==
  IF Has(doc, "errorMessage") THEN Get(doc, "errorMessage").v
  ELSE IF Has(doc, "error") THEN Get(doc, "error").v
  ELSE "Unknown error"

NoAuthResult ==
  [refresh_token |-> NoneStr, access_token |-> NoneStr, username |-> NoneStr, uuid |-> NoneStr]

\* authenticate_base leaves by an exception, after the requests `reqs`
AuthRaise(exc, kind, detail, reqs) ==
  [done |-> TRUE, raised |-> exc, kind |-> kind, detail |-> detail,
   value |-> NoAuthResult, reqs |-> reqs]

\* authenticate_base(request_token_payload): the dict it returns or the
\* exception it raises, and the requests it made; answers[i] is what the
\* server answers to the i-th request
authenticate_base(request_token_payload, answers) ==
  LET req1 == <<HttpRequest("POST", MS_OAUTH_TOKEN_URL, request_token_payload)>>
      a1 == ms_request(answers[1])
  IN IF a1.raised # NoneStr THEN AuthRaise(a1.raised, NoneStr, NoneStr, req1)
     ELSE IF ~Has(a1.doc, "refresh_token") \/ ~Has(a1.doc, "access_token")
     THEN AuthRaise("KeyError", NoneStr, NoneStr, req1)
     ELSE
  LET req2 == Append(req1, HttpRequest("POST", MS_XBL_AUTH_URL,
                                   RpsTicket(Get(a1.doc, "access_token").v)))
      a2 == ms_request(answers[2])
  IN IF a2.raised # NoneStr THEN AuthRaise(a2.raised, NoneStr, NoneStr, req2)
     ELSE IF ~Has(a2.doc, "Token") \/ ~HasUhs(a2.doc)
     THEN AuthRaise("KeyError", NoneStr, NoneStr, req2)
     ELSE
  LET xbl_user_hash == Uhs(a2.doc)
      req3 == Append(req2, HttpRequest("POST", MS_XSTS_AUTH_URL, Text(Get(a2.doc, "Token").v)))
      a3 == ms_request(answers[3])
  IN IF a3.raised # NoneStr THEN AuthRaise(a3.raised, NoneStr, NoneStr, req3)
     ELSE IF ~Has(a3.doc, "Token") \/ ~HasUhs(a3.doc)
     THEN AuthRaise("KeyError", NoneStr, NoneStr, req3)
     ELSE IF xbl_user_hash # Uhs(a3.doc)
     THEN AuthRaise("AuthError", "microsoft.inconsistent_user_hash", NoneStr, req3)
     ELSE
  LET req4 == Append(req3, HttpRequest("POST", MC_AUTH_URL,
                                   IdentityToken(xbl_user_hash, Get(a3.doc, "Token").v)))
      a4 == ms_request(answers[4])
  IN IF a4.raised # NoneStr THEN AuthRaise(a4.raised, NoneStr, NoneStr, req4)
     ELSE IF ~Has(a4.doc, "access_token") THEN AuthRaise("KeyError", NoneStr, NoneStr, req4)
     ELSE
  LET mc_access_token == Get(a4.doc, "access_token").v
      req5 == Append(req4, HttpRequest("GET", MC_PROFILE_URL, Bearer(mc_access_token)))
      a5 == mc_request(answers[5])
  IN IF a5.raised # NoneStr THEN AuthRaise(a5.raised, NoneStr, NoneStr, req5)
     ELSE IF ProfileError(a5.status, a5.doc) = "microsoft.error"
     THEN AuthRaise("AuthError", "microsoft.error", ErrorMessage(a5.doc), req5)
     ELSE IF ProfileError(a5.status, a5.doc) # NoneStr
     THEN AuthRaise("AuthError", ProfileError(a5.status, a5.doc), NoneStr, req5)
     ELSE IF ~Has(a5.doc, "name") \/ ~Has(a5.doc, "id")
     THEN AuthRaise("KeyError", NoneStr, NoneStr, req5)
     ELSE [done |-> TRUE, raised |-> NoneStr, kind |-> NoneStr, detail |-> NoneStr,
           value |-> [refresh_token |-> Get(a1.doc, "refresh_token").v,
                      access_token |-> mc_access_token,
                      username |-> Get(a5.doc, "name").v,
                      uuid |-> Get(a5.doc, "id").v],
           reqs |-> req5]

\* the answers of the five endpoints
TokenBody(refresh_token, access_token) ==
  JDict({<<"refresh_token", JStr(refresh_token)>>, <<"access_token", JStr(access_token)>>})
XuiBody(token, uhs) ==
  JDict({<<"Token", JStr(token)>>,
         <<"DisplayClaims", JDict({<<"xui", JList(<<JDict({<<"uhs", JStr(uhs)>>})>>)>>})>>})

TokenAnswers ==
  { Answer(200, TokenBody("R", "A")), Answer(200, TokenBody("R2", "A2")),
    Answer(400, JDict({<<"error", JStr("invalid_grant")>>})), Answer(0, NoAnswer) }
XblAnswers ==
  { Answer(200, XuiBody("X", "h")), Answer(200, XuiBody("X2", "h2")), Answer(400, JDict({})) }
XstsAnswers ==
  { Answer(200, XuiBody("S", "h")), Answer(200, XuiBody("S2", "h2")),
    Answer(401, JDict({<<"XErr", JStr("2148916233")>>})) }
LoginAnswers ==
  { Answer(200, JDict({<<"access_token", JStr("M")>>})),
    Answer(200, JDict({<<"access_token", JStr("M2")>>})),
    Answer(403, JDict({<<"error", JStr("FORBIDDEN")>>})) }
ProfileAnswers ==
  { Answer(200, JDict({<<"name", JStr("N")>>, <<"id", JStr("U")>>})),
    Answer(200, JDict({<<"error", JStr("NOT_FOUND")>>})),
    Answer(200, JDict({})),
    Answer(404, JDict({<<"error", JStr("NOT_FOUND")>>, <<"errorMessage", JStr("no profile")>>})),
    Answer(401, JDict({})),
    Answer(500, JDict({<<"errorMessage", JStr("boom")>>})),
    Answer(429, JDict({<<"error", JStr("slow down")>>})),
    Answer(503, JDict({})),
    Answer(404, NotJson) }

AuthCalls ==
  { [op |-> "authenticate_base",
     request_token_payload |-> Text(grant),
     answers |-> <<a1, a2, a3, a4, a5>>] :
      grant \in {"authorization_code", "refresh_token"},
      a1 \in TokenAnswers, a2 \in XblAnswers, a3 \in XstsAnswers, a4 \in LoginAnswers,
      a5 \in ProfileAnswers }

AuthenticateBase ==
  /\ call.op = "authenticate_base"
  /\ ~ret.done
  /\ ret' = authenticate_base(call.request_token_payload, call.answers)
  /\ UNCHANGED call
  /\ UNCHANGED <<dlvars, rvars, mvars, avars, xvars>>

(***************************************************************************)
(* VersionManifest: filter_latest and search_versions                      *)
(***************************************************************************)
\* the longest list of versions of a manifest
MaxVersions == 2

\* the ids of versions and the inputs of a search are strings of these
\* pieces; a channel key is a piece of its own
ManifestIds == {<<"1">>, <<"1", ".", "2">>, <<"2", "1">>, <<"release", "1">>}
SearchInputs == {<<"release">>, <<"snapshot">>, <<"1">>, <<"2">>, <<"1", ".">>, <<>>}

\* the "latest" member of the manifest
LatestPool ==
  { JDict({}),
    JDict({<<<<"release">>, <<"1", ".", "2">>>>}),
    JDict({<<<<"release">>, <<"1">>>>, <<<<"snapshot">>, <<"2", "1">>>>}) }

\* VersionManifest(data)
VersionManifest(latest, versions) == [latest |-> latest, versions |-> versions]
VersionData(version_id) == [id |-> version_id]

\* inp in version_data["id"]
Contains(str, sub) ==
  \E i \in 0..(Len(str) - Len(sub)) : SubSeq(str, i + 1, i + Len(sub)) = sub

\* VersionManifest.filter_latest
filter_latest(data, version) ==
  IF Has(data.latest, version) THEN <<Get(data.latest, version), TRUE>>
  ELSE <<version, FALSE>>

\* VersionManifest.search_versions, as the list of what it yields
SearchBySubstring(data, inp) ==
  SelectSeq(data.versions,
            LAMBDA version_data : Contains(version_data.id, filter_latest(data, inp)[1]))
search_versions(data, inp) ==
  SelectSeq(data.versions,
            LAMBDA version_data :
              \/ filter_latest(data, inp)[2] /\ version_data.id = filter_latest(data, inp)[1]
              \/ ~filter_latest(data, inp)[2]
                   /\ Contains(version_data.id, filter_latest(data, inp)[1]))

SearchCalls ==
  { [op |-> "search_versions", data |-> VersionManifest(latest, versions), inp |-> inp] :
      latest \in LatestPool,
      versions \in UNION { [1..n -> {VersionData(x) : x \in ManifestIds}] : n \in 0..MaxVersions },
      inp \in SearchInputs }

SearchVersions ==
  /\ call.op = "search_versions"
  /\ ~ret.done
  /\ ret' = [done |-> TRUE, raised |-> NoneStr,
             filtered |-> filter_latest(call.data, call.inp),
             value |-> search_versions(call.data, call.inp)]
  /\ UNCHANGED call
  /\ UNCHANGED <<dlvars, rvars, mvars, avars, xvars>>

CallsStart ==
  /\ \/ call \in RuleCalls
     \/ call \in ArgsCalls
     \/ call \in LibraryCalls
     \/ call \in LoggerCalls
     \/ call \in JvmCalls
     \/ call \in TokenCalls
     \/ call \in AuthCalls
     \/ call \in SearchCalls
  /\ ret = NoRet

NextCalls ==
  \/ InterpretRule
  \/ ComputeStartArgs
  \/ EnsureLibraries
  \/ EnsureLogger
  \/ EnsureJvm
  \/ FormatTokenArgument
  \/ AuthenticateBase
  \/ SearchVersions

(***************************************************************************)
(* AuthDatabase                                                            *)
(***************************************************************************)
\* the largest number of store operations, or of commands, in a run
MaxOps == 3

\* a JSON object, its members in the order of the file
JObj(members) == [t |-> "obj", v |-> members]

\* a Python dict, as the sequence of its items in insertion order
OdHas(od, key) == \E i \in DOMAIN od : od[i][1] = key
OdGet(od, key) == od[CHOOSE i \in DOMAIN od : od[i][1] = key][2]
OdSet(od, key, val) ==
  IF OdHas(od, key)
  THEN [i \in DOMAIN od |-> IF od[i][1] = key THEN <<key, val>> ELSE od[i]]
  ELSE Append(od, <<key, val>>)
OdDel(od, key) == SelectSeq(od, LAMBDA item : item[1] # key)

\* the session classes: TYPE and the attributes __init__ sets
BaseAuthSession(access_token, username, uuid) ==
  [TYPE |-> "raw", access_token |-> access_token, username |-> username, uuid |-> uuid]
YggdrasilAuthSession(access_token, username, uuid, client_token) ==
  [TYPE |-> "yggdrasil", access_token |-> access_token, username |-> username,
   uuid |-> uuid, client_token |-> client_token]
MicrosoftAuthSession(access_token, username, uuid, refresh_token, client_id, redirect_uri) ==
  [TYPE |-> "microsoft", access_token |-> access_token, username |-> username,
   uuid |-> uuid, refresh_token |-> refresh_token, client_id |-> client_id,
   redirect_uri |-> redirect_uri]

\* AuthDatabase.TYPES
TYPES == {"yggdrasil", "microsoft"}

\* sess_type.FIELDS
FIELDS(typ) ==
  IF typ = "yggdrasil" THEN <<"access_token", "username", "uuid", "client_token">>
  ELSE <<"access_token", "username", "uuid", "refresh_token", "client_id", "redirect_uri">>

\* sess_type(*sess_params): the parameters go to __init__ by position
NewSessionSwapped(typ, p) ==
  IF typ = "yggdrasil" THEN YggdrasilAuthSession(p[1], p[2], p[4], p[3])
  ELSE MicrosoftAuthSession(p[1], p[2], p[3], p[5], p[4], p[6])
NewSession(typ, p) ==
  IF typ = "yggdrasil" THEN YggdrasilAuthSession(p[1], p[2], p[3], p[4])
  ELSE MicrosoftAuthSession(p[1], p[2], p[3], p[4], p[5], p[6])

\* AuthDatabase.put: the store after it, or the ValueError
PutUnchecked(sessions, email_or_username, sess) ==
  [raised |-> NoneStr,
   sessions |-> OdSet(sessions, sess.TYPE,
                      OdSet(IF OdHas(sessions, sess.TYPE) THEN OdGet(sessions, sess.TYPE)
                            ELSE <<>>,
                            email_or_username, sess))]
put(sessions, email_or_username, sess) ==
  IF ~OdHas(sessions, sess.TYPE) /\ sess.TYPE \notin TYPES
  THEN [raised |-> "ValueError", sessions |-> sessions]
  ELSE [raised |-> NoneStr,
        sessions |-> OdSet(sessions, sess.TYPE,
                           OdSet(IF OdHas(sessions, sess.TYPE) THEN OdGet(sessions, sess.TYPE)
                                 ELSE <<>>,
                                 email_or_username, sess))]

\* a session a method returns, None included
Some(sess) == [none |-> FALSE, sess |-> sess]
NoSession == [none |-> TRUE, sess |-> BaseAuthSession(<<>>, <<>>, <<>>)]

\* AuthDatabase.get
get(sessions, email_or_username, typ) ==
  IF ~OdHas(sessions, typ) THEN NoSession
  ELSE IF ~OdHas(OdGet(sessions, typ), email_or_username) THEN NoSession
  ELSE Some(OdGet(OdGet(sessions, typ), email_or_username))

\* AuthDatabase.remove: the session it returns and the store after it
RemoveEverywhere(sessions, email_or_username, typ) ==
  [session |-> get(sessions, email_or_username, typ),
   sessions |-> IF get(sessions, email_or_username, typ).none THEN sessions
                ELSE [i \in DOMAIN sessions |->
                        <<sessions[i][1], OdDel(sessions[i][2], email_or_username)>>]]
remove(sessions, email_or_username, typ) ==
  [session |-> get(sessions, email_or_username, typ),
   sessions |-> IF get(sessions, email_or_username, typ).none THEN sessions
                ELSE OdSet(sessions, typ, OdDel(OdGet(sessions, typ), email_or_username))]

\* AuthDatabase.save: the JSON document written to the primary file
RECURSIVE SessData(_, _)
SessData(sess, fields) ==
  IF fields = <<>> THEN <<>>
  ELSE <<<<Head(fields), sess[Head(fields)]>>>> \o SessData(sess, Tail(fields))
SessionsData(typ, typ_sessions) ==
  [i \in DOMAIN typ_sessions |->
     <<typ_sessions[i][1], JObj(SessData(typ_sessions[i][2], FIELDS(typ)))>>]
save(sessions) ==
  LET known == SelectSeq(sessions, LAMBDA item : item[1] \in TYPES)
  IN JObj([i \in DOMAIN known |->
             <<known[i][1], JObj(<< <<"sessions", JObj(SessionsData(known[i][1], known[i][2]))>> >>)>>])

\* sess_params of load: sess_data.get(field, "") for every field of FIELDS
RECURSIVE SessParams(_, _)
SessParams(sess_data, fields) ==
  IF fields = <<>> THEN <<>>
  ELSE <<IF OdHas(sess_data.v, Head(fields)) THEN OdGet(sess_data.v, Head(fields))
         ELSE JStr(<<>>)>>
       \o SessParams(sess_data, Tail(fields))

\* the loop of load over sessions_data.items(), from the items left: the
\* bucket, or the AttributeError of sess_data.get on a value that is no dict
RECURSIVE LoadSessions(_, _, _)
LoadSessions(typ, items, bucket) ==
  IF items = <<>> THEN [raised |-> NoneStr, bucket |-> bucket]
  ELSE IF Head(items)[2].t # "obj" THEN [raised |-> "AttributeError", bucket |-> bucket]
  ELSE LoadSessions(typ, Tail(items),
                    OdSet(bucket, Head(items)[1],
                          NewSession(typ, SessParams(Head(items)[2], FIELDS(typ)))))

\* the loop of load over data.items(), from the items left, with the store so far
RECURSIVE LoadSections(_, _)
LoadSections(items, sessions) ==
  IF items = <<>> THEN [raised |-> NoneStr, sessions |-> sessions]
  ELSE LET typ == Head(items)[1]
           typ_data == Head(items)[2]
           cleared == OdSet(sessions, typ, <<>>)
       IN IF typ \notin TYPES THEN LoadSections(Tail(items), sessions)
          ELSE IF typ_data.t # "obj" THEN [raised |-> "TypeError", sessions |-> cleared]
          ELSE IF ~OdHas(typ_data.v, "sessions") THEN [raised |-> "KeyError", sessions |-> cleared]
          ELSE IF OdGet(typ_data.v, "sessions").t # "obj"
          THEN [raised |-> "AttributeError", sessions |-> cleared]
          ELSE LET b == LoadSessions(typ, OdGet(typ_data.v, "sessions").v, <<>>)
               IN IF b.raised # NoneStr
                  THEN [raised |-> b.raised, sessions |-> OdSet(sessions, typ, b.bucket)]
                  ELSE LoadSections(Tail(items), OdSet(sessions, typ, b.bucket))

\* what the except clause of load lets through
LoadCaught(exc) == exc \in {"OSError", "KeyError", "TypeError", "JSONDecodeError"}

\* the try block of load, on the store as the legacy import left it
LoadPrimary(file, sessions) ==
  IF file.kind = "absent" THEN [raised |-> "OSError", sessions |-> sessions]
  ELSE IF JsonLoad(file).raised # NoneStr
  THEN [raised |-> JsonLoad(file).raised, sessions |-> sessions]
  ELSE IF JsonLoad(file).content.t # "obj" THEN [raised |-> "AttributeError", sessions |-> sessions]
  ELSE LoadSections(JsonLoad(file).content.v, sessions)

\* the legacy file: absent, undecodable, or its lines as readlines() gives them
LegacyFile(kind, lines) == [kind |-> kind, lines |-> lines]

\* the loop of _load_legacy_and_delete over fp.readlines()
RECURSIVE ImportLines(_, _)
ImportLines(lines, sessions) ==
  IF lines = <<>> THEN sessions
  ELSE LET parts == SplitOn(Head(lines), " ")
       IN ImportLines(Tail(lines),
            IF Len(parts) = 5
            THEN put(sessions, parts[1],
                     YggdrasilAuthSession(JStr(parts[5]), JStr(parts[3]), JStr(parts[4]),
                                          JStr(parts[2]))).sessions
            ELSE sessions)

\* _load_legacy_and_delete: the store and the legacy file after it
load_legacy_and_delete(file, sessions) ==
  IF file.kind = "absent" THEN [raised |-> NoneStr, sessions |-> sessions, legacy |-> file]
  ELSE IF file.kind = "undecodable"
  THEN [raised |-> "UnicodeDecodeError", sessions |-> sessions, legacy |-> file]
  ELSE [raised |-> NoneStr, sessions |-> ImportLines(file.lines, sessions),
        legacy |-> LegacyFile("absent", <<>>)]

\* AuthDatabase.load: the store and the legacy file after it, and the
\* exception that leaves it
load(file, legacy_file) ==
  LET imported == IF file.kind = "absent" THEN load_legacy_and_delete(legacy_file, <<>>)
                  ELSE [raised |-> NoneStr, sessions |-> <<>>, legacy |-> legacy_file]
      loaded == LoadPrimary(file, imported.sessions)
  IN IF imported.raised # NoneStr THEN imported
     ELSE [raised |-> IF LoadCaught(loaded.raised) THEN NoneStr ELSE loaded.raised,
           sessions |-> loaded.sessions, legacy |-> imported.legacy]

(***************************************************************************)
(* The session store, operation by operation                               *)
(***************************************************************************)
\* the outcome of a store operation: its name and arguments, what it raised
\* and the session it returned
Outcome(op, email, typ, raised, session) ==
  [op |-> op, email |-> email, typ |-> typ, raised |-> raised, session |-> session]
NoOutcome == Outcome("none", <<>>, NoneStr, NoneStr, NoSession)

Emails == {Text("u"), Text("w")}

\* the sessions a caller may put: two of the legacy provider, one of the OAuth
\* provider, and one BaseAuthSession, which is of no provider
SessionPool ==
  { YggdrasilAuthSession(JStr(Text("T")), JStr(Text("N")), JStr(Text("U")), JStr(Text("C"))),
    YggdrasilAuthSession(JStr(Text("T2")), JStr(Text("N")), JStr(Text("U")), JStr(<<>>)),
    MicrosoftAuthSession(JStr(Text("A")), JStr(Text("N")), JStr(Text("U")), JStr(Text("R")),
                         JStr(Text("cid")), JStr(Text("uri"))),
    BaseAuthSession(JStr(Text("T")), JStr(Text("N")), JStr(Text("U"))) }

GoodSection == JObj(<< <<"sessions", JObj(<< <<Text("u"), JObj(<< <<"username", JStr(Text("N"))>> >>)>> >>)>> >>)

\* the primary file before the run: absent, not JSON, not UTF-8, or a document
\* with a section that has no sessions key before or after a well-formed
\* one, or with a section of an unknown provider
PrimaryFiles ==
  { CacheFile("absent", JNull), CacheFile("garbage", JNull), CacheFile("undecodable", JNull),
    CacheFile("doc", JObj(<< <<"yggdrasil", JObj(<<>>)>>, <<"microsoft", GoodSection>> >>)),
    CacheFile("doc", JObj(<< <<"microsoft", GoodSection>>, <<"yggdrasil", JObj(<<>>)>> >>)),
    CacheFile("doc", JObj(<< <<"mojang", GoodSection>>, <<"yggdrasil", GoodSection>> >>)) }

\* a line of the legacy file: five fields and the line terminator, if any
LegacyLine(email, client_token, username, uuid, access_token, eol) ==
  <<Lit(email), Lit(" "), Lit(client_token), Lit(" "), Lit(username), Lit(" "), Lit(uuid),
    Lit(" "), Lit(access_token)>> \o eol

LegacyFiles ==
  { LegacyFile("absent", <<>>),
    LegacyFile("undecodable", <<>>),
    LegacyFile("lines", <<LegacyLine("u", "C", "N", "U", "T", <<>>)>>),
    LegacyFile("lines", <<LegacyLine("u", "C", "N", "U", "T", <<Lit("\n")>>),
                          <<Lit("not"), Lit(" "), Lit("a"), Lit(" "), Lit("session"), Lit("\n")>>,
                          LegacyLine("w", "C2", "N2", "U2", "T2", <<>>)>>) }

\* the sessions a load imported from the legacy file it deleted, <<>> otherwise
Imported(file, legacy_file) ==
  IF file.kind = "absent" /\ legacy_file.kind = "lines"
  THEN ImportLines(legacy_file.lines, <<>>)
  ELSE <<>>

AuthStart ==
  /\ db = <<>>
  /\ filename \in PrimaryFiles
  /\ legacy_filename \in LegacyFiles
  /\ aret = NoOutcome
  /\ migrated = <<>>
  /\ nops = 0

IdleAuth ==
  /\ db = <<>>
  /\ filename = CacheFile("absent", JNull)
  /\ legacy_filename = LegacyFile("absent", <<>>)
  /\ aret = NoOutcome
  /\ migrated = <<>>
  /\ nops = 0

\* auth_db.load()
DbLoad ==
  /\ nops < MaxOps
  /\ nops' = nops + 1
  /\ LET d == load(filename, legacy_filename)
     IN /\ db' = d.sessions
        /\ legacy_filename' = d.legacy
        /\ aret' = Outcome("load", <<>>, NoneStr, d.raised, NoSession)
  /\ migrated' = IF Imported(filename, legacy_filename) # <<>>
                 THEN Imported(filename, legacy_filename)
                 ELSE migrated
  /\ UNCHANGED filename
  /\ UNCHANGED <<dlvars, rvars, mvars, pvars, xvars>>

\* auth_db.save()
DbSave ==
  /\ nops < MaxOps
  /\ nops' = nops + 1
  /\ filename' = CacheFile("doc", save(db))
  /\ aret' = Outcome("save", <<>>, NoneStr, NoneStr, NoSession)
  /\ UNCHANGED <<db, legacy_filename, migrated>>
  /\ UNCHANGED <<dlvars, rvars, mvars, pvars, xvars>>

\* auth_db.put(email_or_username, sess)
DbPut(email_or_username, sess) ==
  /\ nops < MaxOps
  /\ nops' = nops + 1
  /\ db' = put(db, email_or_username, sess).sessions
  /\ aret' = Outcome("put", email_or_username, sess.TYPE,
                     put(db, email_or_username, sess).raised, Some(sess))
  /\ UNCHANGED <<filename, legacy_filename, migrated>>
  /\ UNCHANGED <<dlvars, rvars, mvars, pvars, xvars>>

\* auth_db.get(email_or_username, sess_type)
DbGet(email_or_username, typ) ==
  /\ nops < MaxOps
  /\ nops' = nops + 1
  /\ aret' = Outcome("get", email_or_username, typ, NoneStr, get(db, email_or_username, typ))
  /\ UNCHANGED <<db, filename, legacy_filename, migrated>>
  /\ UNCHANGED <<dlvars, rvars, mvars, pvars, xvars>>

\* auth_db.remove(email_or_username, sess_type)
DbRemove(email_or_username, typ) ==
  /\ nops < MaxOps
  /\ nops' = nops + 1
  /\ db' = remove(db, email_or_username, typ).sessions
  /\ aret' = Outcome("remove", email_or_username, typ, NoneStr,
                     remove(db, email_or_username, typ).session)
  /\ UNCHANGED <<filename, legacy_filename, migrated>>
  /\ UNCHANGED <<dlvars, rvars, mvars, pvars, xvars>>

NextAuth ==
  \/ DbLoad
  \/ DbSave
  \/ \E e \in Emails, sess \in SessionPool : DbPut(e, sess)
  \/ \E e \in Emails, typ \in TYPES \cup {"raw"} : DbGet(e, typ)
  \/ \E e \in Emails, typ \in TYPES \cup {"raw"} : DbRemove(e, typ)

(***************************************************************************)
(* The commands that use the session store                                 *)
(***************************************************************************)
\* what the authentication server makes of a cached session: validate() is
\* true; validate() is false and refresh() succeeds; or one of them raises
\* AuthError
ServerAnswers == {"valid", "refreshed", "rejected"}

\* what a fresh authentication gives: a session, or none when the user gives
\* no password or code and when it raises AuthError
FreshAnswers == {"session", "none"}

\* the session after refresh(): the access token is the one of the response
Refreshed(sess) == [sess EXCEPT !.access_token = JStr(Text("T3"))]

\* the session a fresh authentication returns
FreshSession(microsoft) ==
  IF microsoft
  THEN MicrosoftAuthSession(JStr(Text("A")), JStr(Text("N")), JStr(Text("U")), JStr(Text("R")),
                            JStr(Text("cid")), JStr(Text("uri")))
  ELSE YggdrasilAuthSession(JStr(Text("T")), JStr(Text("N")), JStr(Text("U")), JStr(Text("C")))

SessType(microsoft) == IF microsoft THEN "microsoft" ELSE "yggdrasil"

\* the identities of `imported` less the one a logout removed
Forget(imported, email_or_username) ==
  [i \in DOMAIN imported |-> <<imported[i][1], OdDel(imported[i][2], email_or_username)>>]

\* the files before the first command: the primary file absent or with a
\* session of the legacy provider under u, and any legacy file
LoginStart ==
  /\ db = <<>>
  /\ filename \in {CacheFile("absent", JNull),
                   CacheFile("doc", JObj(<< <<"yggdrasil", GoodSection>> >>))}
  /\ legacy_filename \in LegacyFiles
  /\ aret = NoOutcome
  /\ migrated = <<>>
  /\ nops = 0

\* cmd_logout: a new store, load(), remove() and, when there was a session,
\* invalidate() and save()
CmdLogout(email_or_username, microsoft) ==
  /\ nops < MaxOps
  /\ nops' = nops + 1
  /\ LET d == load(filename, legacy_filename)
         r == remove(d.sessions, email_or_username, SessType(microsoft))
         now == IF Imported(filename, legacy_filename) # <<>>
                THEN Imported(filename, legacy_filename) ELSE migrated
     IN /\ legacy_filename' = d.legacy
        /\ IF d.raised # NoneStr
           THEN /\ db' = d.sessions
                /\ aret' = Outcome("logout", email_or_username, SessType(microsoft), d.raised,
                                   NoSession)
                /\ migrated' = now
                /\ UNCHANGED filename
           ELSE /\ db' = r.sessions
                /\ aret' = Outcome("logout", email_or_username, SessType(microsoft), NoneStr,
                                   r.session)
                /\ filename' = IF r.session.none THEN filename
                               ELSE CacheFile("doc", save(r.sessions))
                /\ migrated' = IF r.session.none \/ microsoft THEN now
                               ELSE Forget(now, email_or_username)
  /\ UNCHANGED <<dlvars, rvars, mvars, pvars, xvars>>

\* prompt_authenticate, as cmd_login calls it (cache_in_db) and as cmd_start
\* does (cache_in_db unless --temp-login)
PromptAuthenticate(email_or_username, cache_in_db, microsoft, server, fresh) ==
  /\ nops < MaxOps
  /\ nops' = nops + 1
  /\ LET d == load(filename, legacy_filename)
         typ == SessType(microsoft)
         session == get(d.sessions, email_or_username, typ)
         refreshed == put(d.sessions, email_or_username, Refreshed(session.sess)).sessions
         cached == put(d.sessions, email_or_username, FreshSession(microsoft)).sessions
     IN /\ legacy_filename' = d.legacy
        /\ migrated' = IF Imported(filename, legacy_filename) # <<>>
                       THEN Imported(filename, legacy_filename) ELSE migrated
        /\ IF d.raised # NoneStr
           THEN /\ db' = d.sessions
                /\ aret' = Outcome("login", email_or_username, typ, d.raised, NoSession)
                /\ UNCHANGED filename
           ELSE IF ~session.none /\ server = "valid"
           THEN /\ db' = d.sessions
                /\ aret' = Outcome("login", email_or_username, typ, NoneStr, session)
                /\ UNCHANGED filename
           ELSE IF ~session.none /\ server = "refreshed"
           THEN /\ db' = refreshed
                /\ aret' = Outcome("login", email_or_username, typ, NoneStr,
                                   Some(Refreshed(session.sess)))
                /\ filename' = CacheFile("doc", save(refreshed))
           ELSE IF fresh # "session"
           THEN /\ db' = d.sessions
                /\ aret' = Outcome("login", email_or_username, typ, NoneStr, NoSession)
                /\ UNCHANGED filename
           ELSE IF cache_in_db
           THEN /\ db' = cached
                /\ aret' = Outcome("login", email_or_username, typ, NoneStr,
                                   Some(FreshSession(microsoft)))
                /\ filename' = CacheFile("doc", save(cached))
           ELSE /\ db' = d.sessions
                /\ aret' = Outcome("login", email_or_username, typ, NoneStr,
                                   Some(FreshSession(microsoft)))
                /\ UNCHANGED filename
  /\ UNCHANGED <<dlvars, rvars, mvars, pvars, xvars>>

NextLogin ==
  \/ \E e \in Emails, microsoft \in BOOLEAN : CmdLogout(e, microsoft)
  \/ \E e \in Emails, cache_in_db \in BOOLEAN, microsoft \in BOOLEAN,
        server \in ServerAnswers, fresh \in FreshAnswers :
       PromptAuthenticate(e, cache_in_db, microsoft, server, fresh)

(***************************************************************************)
(* MicrosoftAuthSession: validate and refresh                              *)
(***************************************************************************)
\* the session object: the fields of FIELDS, as strings, and _new_username
MsSession(sess, new_username) == [sess |-> sess, new_username |-> new_username]

\* what a method of the session did: what it returned or raised, the
\* requests it made, and what the endpoints were to answer
MsOutcome(op, value, raised, reqs, answers) ==
  [op |-> op, value |-> value, raised |-> raised, reqs |-> reqs, answers |-> answers]

\* MicrosoftAuthSession.validate, on the answer of the profile endpoint
ValidateKeepPending(s, answer) ==
  LET req == <<HttpRequest("GET", MC_PROFILE_URL, Bearer(s.sess.access_token))>>
      a == mc_request(answer)
  IN IF a.raised # NoneStr
     THEN [ms |-> s, out |-> MsOutcome("validate", FALSE, a.raised, req, <<answer>>)]
     ELSE IF a.status # 200
     THEN [ms |-> s, out |-> MsOutcome("validate", FALSE, NoneStr, req, <<answer>>)]
     ELSE IF ~Has(a.doc, "name")
     THEN [ms |-> s, out |-> MsOutcome("validate", FALSE, "KeyError", req, <<answer>>)]
     ELSE IF s.sess.username # Get(a.doc, "name").v
     THEN [ms |-> MsSession(s.sess, Get(a.doc, "name").v),
           out |-> MsOutcome("validate", FALSE, NoneStr, req, <<answer>>)]
     ELSE [ms |-> s, out |-> MsOutcome("validate", TRUE, NoneStr, req, <<answer>>)]
validate(s, answer) ==
  LET cleared == MsSession(s.sess, NoneStr)
      req == <<HttpRequest("GET", MC_PROFILE_URL, Bearer(s.sess.access_token))>>
      a == mc_request(answer)
  IN IF a.raised # NoneStr
     THEN [ms |-> cleared, out |-> MsOutcome("validate", FALSE, a.raised, req, <<answer>>)]
     ELSE IF a.status # 200
     THEN [ms |-> cleared, out |-> MsOutcome("validate", FALSE, NoneStr, req, <<answer>>)]
     ELSE IF ~Has(a.doc, "name")
     THEN [ms |-> cleared, out |-> MsOutcome("validate", FALSE, "KeyError", req, <<answer>>)]
     ELSE IF s.sess.username # Get(a.doc, "name").v
     THEN [ms |-> MsSession(s.sess, Get(a.doc, "name").v),
           out |-> MsOutcome("validate", FALSE, NoneStr, req, <<answer>>)]
     ELSE [ms |-> cleared, out |-> MsOutcome("validate", TRUE, NoneStr, req, <<answer>>)]

\* the payload of the refresh-token grant
RefreshPayload(sess) == <<Lit("refresh_token"), Lit(sess.refresh_token)>>

\* MicrosoftAuthSession.refresh, on the answers of the five endpoints
RefreshTokenFirst(s, answers) ==
  LET r == authenticate_base(RefreshPayload(s.sess), answers)
      a1 == ms_request(answers[1])
  IN IF s.new_username # NoneStr
     THEN [ms |-> MsSession([s.sess EXCEPT !.username = s.new_username], NoneStr),
           out |-> MsOutcome("refresh", FALSE, NoneStr, <<>>, answers)]
     ELSE IF r.raised # NoneStr
     THEN [ms |-> IF a1.raised = NoneStr /\ Has(a1.doc, "refresh_token")
                  THEN MsSession([s.sess EXCEPT
                                    !.refresh_token = Get(a1.doc, "refresh_token").v], NoneStr)
                  ELSE s,
           out |-> MsOutcome("refresh", FALSE, r.raised, r.reqs, answers)]
     ELSE [ms |-> MsSession([s.sess EXCEPT !.access_token = r.value.access_token,
                                           !.username = r.value.username,
                                           !.uuid = r.value.uuid,
                                           !.refresh_token = r.value.refresh_token],
                            NoneStr),
           out |-> MsOutcome("refresh", FALSE, NoneStr, r.reqs, answers)]
refresh(s, answers) ==
  LET r == authenticate_base(RefreshPayload(s.sess), answers)
  IN IF s.new_username # NoneStr
     THEN [ms |-> MsSession([s.sess EXCEPT !.username = s.new_username], NoneStr),
           out |-> MsOutcome("refresh", FALSE, NoneStr, <<>>, answers)]
     ELSE IF r.raised # NoneStr
     THEN [ms |-> s, out |-> MsOutcome("refresh", FALSE, r.raised, r.reqs, answers)]
     ELSE [ms |-> MsSession([s.sess EXCEPT !.access_token = r.value.access_token,
                                           !.username = r.value.username,
                                           !.uuid = r.value.uuid,
                                           !.refresh_token = r.value.refresh_token],
                            NoneStr),
           out |-> MsOutcome("refresh", FALSE, NoneStr, r.reqs, answers)]

\* the largest number of methods called on the session
MaxMethods == 3

\* the session as its constructor leaves it
SessionStart ==
  /\ ms = MsSession(MicrosoftAuthSession("M0", "N0", "U", "R0", "cid", "uri"), NoneStr)
  /\ msret = MsOutcome("none", FALSE, NoneStr, <<>>, <<>>)
  /\ msops = 0

IdleSession == SessionStart

\* session.validate()
Validate(answer) ==
  /\ msops < MaxMethods
  /\ msops' = msops + 1
  /\ ms' = validate(ms, answer).ms
  /\ msret' = validate(ms, answer).out
  /\ UNCHANGED <<dlvars, rvars, mvars, pvars, avars, lvars, tvars>>

\* session.refresh()
Refresh(answers) ==
  /\ msops < MaxMethods
  /\ msops' = msops + 1
  /\ ms' = refresh(ms, answers).ms
  /\ msret' = refresh(ms, answers).out
  /\ UNCHANGED <<dlvars, rvars, mvars, pvars, avars, lvars, tvars>>

\* what the five servers of the chain answer to a refresh: a server that the
\* chain does not get to is not asked, and is down
Asked(answers) == Len(authenticate_base(Text("refresh_token"), answers).reqs)
RefreshAnswers ==
  { [i \in 1..5 |-> IF i > Asked(answers) THEN Answer(0, NoAnswer) ELSE answers[i]] :
      answers \in TokenAnswers \X XblAnswers \X XstsAnswers \X LoginAnswers \X ProfileAnswers }

NextSession ==
  \/ \E answer \in ProfileAnswers : Validate(answer)
  \/ \E answers \in RefreshAnswers : Refresh(answers)

(***************************************************************************)
(* prompt_microsoft_authenticate: the listener and what follows it         *)
(***************************************************************************)
\* the largest number of requests the listener gets
MaxRequests == 3

\* the email the caller asks for and the nonce issued for this login
LoginEmail == "u@e"
IssuedNonce == "abc"
CodeRedirectUri == "http://localhost:12782/code"
LogoutUrl == "https://login.live.com/oauth20_logout.srf"

\* an id_token, as the payload that check_token_id decodes from it
IdToken(nonce, email_claim) == [nonce |-> nonce, email |-> email_claim]
NoIdToken == IdToken(NoneStr, NoneStr)

\* parse_qs of the body of a request: the first value of each key, "None"
\* for a key that is missing
Qs(code, id_token, err) == [code |-> code, id_token |-> id_token, error |-> err]

\* a request to the listener
ListenerRequest(method, urlpath, content_type, qs) ==
  [method |-> method, path |-> urlpath, content_type |-> content_type, qs |-> qs]
NoRequest == ListenerRequest("none", "", "", Qs(NoneStr, NoIdToken, NoneStr))

Form == "application/x-www-form-urlencoded"

ListenerRequests ==
  { ListenerRequest("POST", "/code", Form, Qs("c1", IdToken("abc", "u@e"), NoneStr)),
    ListenerRequest("POST", "/code", Form, Qs("c2", IdToken("xyz", "u@e"), NoneStr)),
    ListenerRequest("POST", "/code", Form, Qs("c3", IdToken("abc", "v@e"), NoneStr)),
    ListenerRequest("POST", "/code", Form, Qs(NoneStr, NoIdToken, "access_denied")),
    ListenerRequest("POST", "/code", Form, Qs("c1", NoIdToken, NoneStr)),
    ListenerRequest("POST", "/code", "application/json",
                    Qs("c1", IdToken("abc", "u@e"), NoneStr)),
    ListenerRequest("POST", "/codes", Form, Qs("c4", IdToken("abc", "u@e"), NoneStr)),
    ListenerRequest("POST", "/exit", Form, Qs("c1", IdToken("abc", "u@e"), NoneStr)),
    ListenerRequest("GET", "/exit", "", Qs(NoneStr, NoIdToken, NoneStr)),
    ListenerRequest("GET", "/code", "", Qs(NoneStr, NoIdToken, NoneStr)),
    ListenerRequest("PUT", "/code", Form, Qs("c1", IdToken("abc", "u@e"), NoneStr)) }

\* self.path.startswith(prefix), for the paths of the requests
PathStartsWith(urlpath, prefix) ==
  \/ urlpath = prefix
  \/ urlpath = "/codes" /\ prefix = "/code"

\* AuthServer.__init__
AuthServer(ms_auth_done, ms_auth_id_token, ms_auth_code) ==
  [ms_auth_done |-> ms_auth_done, ms_auth_id_token |-> ms_auth_id_token,
   ms_auth_code |-> ms_auth_code]
NewAuthServer == AuthServer(FALSE, NoIdToken, NoneStr)

\* what the listener answered: the status and the Location header
Response(status, location) == [status |-> status, location |-> location]

\* RequestHandler.do_POST: the server after it and the response
do_POST_ErrorIs404(srv, req) ==
  IF PathStartsWith(req.path, "/code") /\ req.content_type = Form
  THEN IF req.qs.code # NoneStr /\ req.qs.id_token # NoIdToken
       THEN [server |-> AuthServer(srv.ms_auth_done, req.qs.id_token, req.qs.code),
             response |-> Response(307, LogoutUrl)]
       ELSE [server |-> srv, response |-> Response(404, NoneStr)]
  ELSE [server |-> srv, response |-> Response(404, NoneStr)]
do_POST(srv, req) ==
  IF PathStartsWith(req.path, "/code") /\ req.content_type = Form
  THEN IF req.qs.code # NoneStr /\ req.qs.id_token # NoIdToken
       THEN [server |-> AuthServer(srv.ms_auth_done, req.qs.id_token, req.qs.code),
             response |-> Response(307, LogoutUrl)]
       ELSE IF req.qs.error # NoneStr
       THEN [server |-> AuthServer(TRUE, srv.ms_auth_id_token, srv.ms_auth_code),
             response |-> Response(400, NoneStr)]
       ELSE [server |-> srv, response |-> Response(404, NoneStr)]
  ELSE [server |-> srv, response |-> Response(404, NoneStr)]

\* RequestHandler.do_GET
do_GET(srv, req) ==
  IF PathStartsWith(req.path, "/exit")
  THEN [server |-> AuthServer(TRUE, srv.ms_auth_id_token, srv.ms_auth_code),
        response |-> Response(200, NoneStr)]
  ELSE [server |-> srv, response |-> Response(404, NoneStr)]

\* server.handle_request(): BaseHTTPRequestHandler answers 501 to a method
\* the handler has no do_ method for
handle_request(srv, req) ==
  IF req.method = "POST" THEN do_POST(srv, req)
  ELSE IF req.method = "GET" THEN do_GET(srv, req)
  ELSE [server |-> srv, response |-> Response(501, NoneStr)]

\* MicrosoftAuthSession.check_token_id
CheckNonceOnly(token_id, email_wanted, nonce) == token_id.nonce = nonce
check_token_id(token_id, email_wanted, nonce) ==
  token_id.nonce = nonce /\ token_id.email = email_wanted

\* get_message: the text of the key, or the key when the table has none
get_message(message_key) ==
  CASE message_key = "auth.microsoft.no_browser" ->
         "Failed to open Microsoft login page, no web browser is supported."
    [] message_key = "auth.microsoft.failed_to_authenticate" -> "Failed to authenticate."
    [] message_key = "auth.microsoft.incoherent_data" ->
         "Incoherent authentication data, please retry."
    [] OTHER -> message_key

\* what prompt_microsoft_authenticate ends with: the session it returns, if
\* any, the exception it raises, the message of task("FAILED", ...), and the
\* requests made to the endpoints
LoginResult(returned, session, raised, message, reqs) ==
  [returned |-> returned, session |-> session, raised |-> raised, message |-> message,
   reqs |-> reqs]
NoLoginResult == LoginResult(FALSE, NoAuthResult, NoneStr, NoneStr, <<>>)

\* the payload of the authorization-code grant
CodePayload(code) == <<Lit("authorization_code"), Lit(code)>>

\* the answers of the endpoints to the exchange of the code: all five as
\* they should be, or the token endpoint refusing the code
ExchangeAnswers ==
  { << Answer(200, TokenBody("R", "A")), Answer(200, XuiBody("X", "h")),
       Answer(200, XuiBody("S", "h")), Answer(200, JDict({<<"access_token", JStr("M")>>})),
       Answer(200, JDict({<<"name", JStr("N")>>, <<"id", JStr("U")>>})) >>,
    << Answer(400, JDict({<<"error", JStr("invalid_grant")>>})), Answer(200, XuiBody("X", "h")),
       Answer(200, XuiBody("S", "h")), Answer(200, JDict({<<"access_token", JStr("M")>>})),
       Answer(200, JDict({<<"name", JStr("N")>>, <<"id", JStr("U")>>})) >> }

ListenerStart ==
  /\ auth_server = NewAuthServer
  /\ lpc = "start"
  /\ resp = [req |-> NoRequest, response |-> Response(0, NoneStr)]
  /\ lret = NoLoginResult
  /\ interrupted = FALSE
  /\ nreqs = 0

IdleListener ==
  /\ auth_server = NewAuthServer
  /\ lpc = "idle"
  /\ resp = [req |-> NoRequest, response |-> Response(0, NoneStr)]
  /\ lret = NoLoginResult
  /\ interrupted = FALSE
  /\ nreqs = 0

\* webbrowser.open(...): without a browser the function returns None
OpenBrowser(opened) ==
  /\ lpc = "start"
  /\ IF opened
     THEN lpc' = "listening" /\ UNCHANGED lret
     ELSE /\ lpc' = "returned"
          /\ lret' = LoginResult(TRUE, NoAuthResult, NoneStr,
                                 get_message("auth.microsoft.no_browser"), <<>>)
  /\ UNCHANGED <<auth_server, resp, interrupted, nreqs>>
  /\ UNCHANGED <<dlvars, rvars, mvars, pvars, avars, svars, tvars>>

\* one turn of the loop: server.handle_request() on the request that came
HandleRequest(req) ==
  /\ lpc = "listening"
  /\ ~auth_server.ms_auth_done
  /\ nreqs < MaxRequests
  /\ nreqs' = nreqs + 1
  /\ auth_server' = handle_request(auth_server, req).server
  /\ resp' = [req |-> req, response |-> handle_request(auth_server, req).response]
  /\ UNCHANGED <<lpc, lret, interrupted>>
  /\ UNCHANGED <<dlvars, rvars, mvars, pvars, avars, svars, tvars>>

\* the loop ends because ms_auth_done is set
LeaveLoop ==
  /\ lpc = "listening"
  /\ auth_server.ms_auth_done
  /\ lpc' = "after_loop"
  /\ UNCHANGED <<auth_server, resp, lret, interrupted, nreqs>>
  /\ UNCHANGED <<dlvars, rvars, mvars, pvars, avars, svars, tvars>>

\* KeyboardInterrupt in the loop: except KeyboardInterrupt: pass
Interrupt ==
  /\ lpc = "listening"
  /\ lpc' = "after_loop"
  /\ interrupted' = TRUE
  /\ UNCHANGED <<auth_server, resp, lret, nreqs>>
  /\ UNCHANGED <<dlvars, rvars, mvars, pvars, avars, svars, tvars>>

\* the code after the loop, to the return
AfterLoop(answers) ==
  /\ lpc = "after_loop"
  /\ lpc' = "returned"
  /\ lret' =
       IF auth_server.ms_auth_code = NoneStr
       THEN LoginResult(TRUE, NoAuthResult, NoneStr,
                        get_message("auth.microsoft.failed_to_authenticate"), <<>>)
       ELSE IF check_token_id(auth_server.ms_auth_id_token, LoginEmail, IssuedNonce)
       THEN LET r == authenticate_base(CodePayload(auth_server.ms_auth_code), answers)
            IN LoginResult(r.raised = NoneStr, r.value, r.raised, NoneStr, r.reqs)
       ELSE LoginResult(TRUE, NoAuthResult, NoneStr,
                        get_message("auth.microsoft.incoherent_dat"), <<>>)
  /\ UNCHANGED <<auth_server, resp, interrupted, nreqs>>
  /\ UNCHANGED <<dlvars, rvars, mvars, pvars, avars, svars, tvars>>

NextListener ==
  \/ \E opened \in BOOLEAN : OpenBrowser(opened)
  \/ \E req \in ListenerRequests : HandleRequest(req)
  \/ LeaveLoop
  \/ Interrupt
  \/ \E answers \in ExchangeAnswers : AfterLoop(answers)

(***************************************************************************)
(* start_mc: the stages                                                    *)
(***************************************************************************)
\* the largest number of native libraries ensure_libraries returns
MaxNatives == 2

\* the provisioners, in the order start_mc calls them, and the exception each
\* may raise
Provisioners ==
  <<"ensure_version_jar", "ensure_assets", "ensure_logger", "ensure_libraries", "ensure_jvm">>
RaisedBy(stage) ==
  CASE stage = "resolve" -> "VersionNotFoundError"
    [] stage = "ensure_version_jar" -> "VersionNotFoundError"
    [] stage = "ensure_assets" -> "JsonRequestError"
    [] stage = "ensure_logger" -> "ValueError"
    [] stage = "ensure_libraries" -> "ValueError"
    [] stage = "ensure_jvm" -> "JvmLoadingError"
    [] stage = "extract" -> "BadZipFile"
    [] OTHER -> "KeyError"

\* a stage start_mc completed: whether it appended an entry to dl_list
Stage(stage_name, missing) == [stage |-> stage_name, appended |-> missing]

\* what download_files was given and did: the entries it drained, the
\* finalisers it ran, and how it ended
Drain(es, cbs, ended) == [entries |-> es, ran |-> cbs, ended |-> ended]
NoDrain == Drain(<<>>, <<>>, NoneStr)

\* the provisioner start_mc calls after the i-th: ensure_jvm is called when
\* jvm[0] is None only
NextProvisioner(i, jvm_given) ==
  IF i + 1 < Len(Provisioners) \/ (i + 1 = Len(Provisioners) /\ ~jvm_given)
  THEN Provisioners[i + 1]
  ELSE "download_files"

\* where start_mc goes after download_files: an exception leaves it, if
\* dry_run: return
AfterDrainRunning(ended, dry_run) ==
  IF ended # "returned" THEN "raised" ELSE "extract"
AfterDrain(ended, dry_run) ==
  IF ended # "returned" THEN "raised"
  ELSE IF dry_run THEN "returned" ELSE "extract"

\* how download_files may end on the plan: it returns, raises DownloadError
\* after the buckets, lets an OSError out of a bucket, or the exception of a
\* finaliser
DrainEnds(l) ==
  {"returned"}
  \cup (IF l.entries # <<>> THEN {"DownloadError", "OSError"} ELSE {})
  \cup (IF l.callbacks # <<>> THEN {"FileNotFoundError"} ELSE {})

StartMc(dry_run, jvm_given, natives) ==
  /\ launch = [dry_run |-> dry_run, jvm_given |-> jvm_given, native_libs |-> natives]
  /\ tpc = "resolve"
  /\ trail = <<>>
  /\ dl_list = [entries |-> <<>>, callbacks |-> <<>>]
  /\ drained = NoDrain
  /\ traised = NoneStr

StartStart ==
  \E dry_run \in BOOLEAN, jvm_given \in BOOLEAN, natives \in 0..MaxNatives :
    StartMc(dry_run, jvm_given, natives)

IdleStart ==
  /\ launch = [dry_run |-> FALSE, jvm_given |-> FALSE, native_libs |-> 0]
  /\ tpc = "idle"
  /\ trail = <<>>
  /\ dl_list = [entries |-> <<>>, callbacks |-> <<>>]
  /\ drained = NoDrain
  /\ traised = NoneStr

\* an exception leaves start_mc
StartRaise(exc) ==
  /\ tpc' = "raised"
  /\ traised' = exc
  /\ UNCHANGED trail

\* get_version_manifest().filter_latest(version) and
\* resolve_version_meta_recursive(main_dir, version)
ResolveStage(ok) ==
  /\ tpc = "resolve"
  /\ IF ok
     THEN /\ trail' = Append(trail, Stage("resolve", FALSE))
          /\ tpc' = Provisioners[1]
          /\ UNCHANGED traised
     ELSE StartRaise(RaisedBy("resolve"))
  /\ UNCHANGED <<launch, dl_list, drained>>
  /\ UNCHANGED <<dlvars, rvars, mvars, pvars, avars, svars, lvars>>

\* the i-th provisioner: it appends an entry to dl_list when its file is
\* missing, ensure_assets and ensure_logger register a finaliser
Provision(i, ok, missing, finaliser) ==
  /\ tpc = Provisioners[i]
  /\ finaliser = (Provisioners[i] = "ensure_assets"
                  \/ (Provisioners[i] = "ensure_logger" /\ missing))
  /\ IF ok
     THEN /\ dl_list' =
               [entries |-> IF missing THEN Append(dl_list.entries, Provisioners[i])
                            ELSE dl_list.entries,
                callbacks |-> IF finaliser THEN Append(dl_list.callbacks, Provisioners[i])
                              ELSE dl_list.callbacks]
          /\ trail' = Append(trail, Stage(Provisioners[i], missing))
          /\ tpc' = NextProvisioner(i, launch.jvm_given)
          /\ UNCHANGED traised
     ELSE StartRaise(RaisedBy(Provisioners[i])) /\ UNCHANGED dl_list
  /\ UNCHANGED <<launch, drained>>
  /\ UNCHANGED <<dlvars, rvars, mvars, pvars, avars, svars, lvars>>

\* self.download_files(dl_list); if dry_run: return
DrainStage(ended, n, k) ==
  /\ tpc = "download_files"
  /\ ended \in DrainEnds(dl_list)
  \* an OSError leaves some entry undrained, the exception of a finaliser
  \* leaves this finaliser and the later ones
  /\ n = IF ended = "OSError" THEN Len(dl_list.entries) - 1 ELSE Len(dl_list.entries)
  /\ k = CASE ended = "returned" -> Len(dl_list.callbacks)
           [] ended = "FileNotFoundError" -> Len(dl_list.callbacks) - 1
           [] OTHER -> 0
  /\ drained' = Drain(SubSeq(dl_list.entries, 1, n), SubSeq(dl_list.callbacks, 1, k), ended)
  /\ tpc' = AfterDrain(ended, launch.dry_run)
  /\ IF ended = "returned"
     THEN trail' = Append(trail, Stage("download_files", FALSE)) /\ UNCHANGED traised
     ELSE traised' = ended /\ UNCHANGED trail
  /\ UNCHANGED <<launch, dl_list>>
  /\ UNCHANGED <<dlvars, rvars, mvars, pvars, avars, svars, lvars>>

\* the natives extracted so far
Extracted == Cardinality({i \in DOMAIN trail : trail[i].stage = "extract"})

\* for native_lib in native_libs: with ZipFile(native_lib, 'r') as native_zip: ...
ExtractStage(ok) ==
  /\ tpc = "extract"
  /\ Extracted < launch.native_libs
  /\ IF ok
     THEN /\ trail' = Append(trail, Stage("extract", FALSE))
          /\ UNCHANGED <<tpc, traised>>
     ELSE StartRaise(RaisedBy("extract"))
  /\ UNCHANGED <<launch, dl_list, drained>>
  /\ UNCHANGED <<dlvars, rvars, mvars, pvars, avars, svars, lvars>>

\* from "Computing features" to start_args
ArgsStage(ok) ==
  /\ tpc = "extract"
  /\ Extracted = launch.native_libs
  /\ IF ok
     THEN /\ trail' = Append(trail, Stage("args", FALSE))
          /\ tpc' = "launch"
          /\ UNCHANGED traised
     ELSE StartRaise(RaisedBy("args"))
  /\ UNCHANGED <<launch, dl_list, drained>>
  /\ UNCHANGED <<dlvars, rvars, mvars, pvars, avars, svars, lvars>>

\* subprocess.run(start_args, cwd=work_dir), or runner(start_args, work_dir, ...)
LaunchStage ==
  /\ tpc = "launch"
  /\ trail' = Append(trail, Stage("runner", FALSE))
  /\ tpc' = "returned"
  /\ UNCHANGED <<launch, dl_list, drained, traised>>
  /\ UNCHANGED <<dlvars, rvars, mvars, pvars, avars, svars, lvars>>

NextStart ==
  \/ \E ok \in BOOLEAN : ResolveStage(ok)
  \/ \E i \in DOMAIN Provisioners, ok \in BOOLEAN, missing \in BOOLEAN, finaliser \in BOOLEAN :
       Provision(i, ok, missing, finaliser)
  \/ \E ended \in {"returned", "DownloadError", "OSError", "FileNotFoundError"},
        n \in 0..Len(Provisioners), k \in 0..Len(Provisioners) : DrainStage(ended, n, k)
  \/ \E ok \in BOOLEAN : ExtractStage(ok)
  \/ \E ok \in BOOLEAN : ArgsStage(ok)
  \/ LaunchStage

\* every part of the model that the specification at hand leaves idle
IdleExtra == IdleSession /\ IdleListener /\ IdleStart

(***************************************************************************)
(* The specifications                                                      *)
(***************************************************************************)
Init == InitDL /\ IdleResolver /\ IdleMerge /\ IdleCalls /\ IdleAuth /\ IdleExtra
Next == NextDL
Spec == Init /\ [][Next]_vars

InitResolver == ResolverStart /\ InitDL /\ IdleMerge /\ IdleCalls /\ IdleAuth /\ IdleExtra
SpecResolve == InitResolver /\ [][NextResolver]_vars

InitMerge == MergeStart /\ InitDL /\ IdleResolver /\ IdleCalls /\ IdleAuth /\ IdleExtra
SpecMerge == InitMerge /\ [][NextMerge]_vars

InitCalls == CallsStart /\ InitDL /\ IdleResolver /\ IdleMerge /\ IdleAuth /\ IdleExtra
SpecCalls == InitCalls /\ [][NextCalls]_vars

InitChain == ChainStart /\ InitDL /\ IdleMerge /\ IdleCalls /\ IdleAuth /\ IdleExtra
SpecChain == InitChain /\ [][NextResolver]_vars

InitAuth == AuthStart /\ InitDL /\ IdleResolver /\ IdleMerge /\ IdleCalls /\ IdleExtra
SpecAuth == InitAuth /\ [][NextAuth]_vars

InitLogin == LoginStart /\ InitDL /\ IdleResolver /\ IdleMerge /\ IdleCalls /\ IdleExtra
SpecLogin == InitLogin /\ [][NextLogin]_vars

InitSession ==
  /\ SessionStart /\ InitDL /\ IdleResolver /\ IdleMerge /\ IdleCalls /\ IdleAuth
  /\ IdleListener /\ IdleStart
SpecSession == InitSession /\ [][NextSession]_vars

InitListener ==
  /\ ListenerStart /\ InitDL /\ IdleResolver /\ IdleMerge /\ IdleCalls /\ IdleAuth
  /\ IdleSession /\ IdleStart
SpecListener == InitListener /\ [][NextListener]_vars

InitStart ==
  /\ StartStart /\ InitDL /\ IdleResolver /\ IdleMerge /\ IdleCalls /\ IdleAuth
  /\ IdleSession /\ IdleListener
SpecStart == InitStart /\ [][NextStart]_vars

(***************************************************************************)
(* Properties of the planner and the executor.                             *)
(***************************************************************************)
\* the entries of the plan in the order download_files drains them
RECURSIVE Flatten(_)
Flatten(ents) == IF ents = <<>> THEN <<>> ELSE Head(ents).list \o Flatten(Tail(ents))

\* the entries of a history (of append calls, or of drained entries)
RECURSIVE EntriesOf(_)
EntriesOf(h) == IF h = <<>> THEN <<>> ELSE <<Head(h).entry>> \o EntriesOf(Tail(h))

RECURSIVE SelectCalls(_, _)
SelectCalls(h, hk) ==
  IF h = <<>> THEN <<>>
  ELSE (IF ~Head(h).raised
           /\ hk[1] = (IF Head(h).entry.url.scheme = "https" THEN 1 ELSE 0)
           /\ hk[2] = Head(h).entry.url.netloc
        THEN <<Head(h).entry>> ELSE <<>>) \o SelectCalls(Tail(h), hk)

RECURSIVE DeclaredSizes(_)
DeclaredSizes(h) ==
  IF h = <<>> THEN 0
  ELSE (IF ~Head(h).raised /\ Head(h).entry.size # None THEN Head(h).entry.size ELSE 0)
       + DeclaredSizes(Tail(h))

RECURSIVE CountAccepted(_)
CountAccepted(h) ==
  IF h = <<>> THEN 0 ELSE (IF Head(h).raised THEN 0 ELSE 1) + CountAccepted(Tail(h))

\* the bytes received in the successful attempts of the entries that declare a size
RECURSIVE ReceivedDeclared(_)
ReceivedDeclared(h) ==
  IF h = <<>> THEN 0
  ELSE (IF Head(h).ok /\ Head(h).entry.size # None THEN Head(h).got ELSE 0)
       + ReceivedDeclared(Tail(h))

ErrorKinds == {"not_found", "invalid_size", "invalid_sha1"}
FailedUrls == {done[i].entry.url : i \in {j \in 1..Len(done) : ~done[j].ok}}
AllDrained == EntriesOf(done) = Flatten(lst.entries)
DrainPcs == {"bucket", "request", "attempt", "callbacks"}

\* the response r is the content the entry declares
IsCorrect(r, entry) ==
  /\ r.status = 200
  /\ Len(r.body) = entry.size
  /\ HexDigest(r.body) = entry.sha1

\* C1: finalisers run only after every entry of every bucket was downloaded
\* successfully, in the order add_callback registered them; when an entry is in
\* the failure map DownloadError is raised and no finaliser has run.
C1_FinalisersAfterSuccess ==
  /\ ran # <<>> => /\ AllDrained
                   /\ \A i \in 1..Len(done) : done[i].ok
                   /\ DOMAIN fails = {}
  /\ Len(ran) <= Len(lst.callbacks)
  /\ ran = SubSeq(lst.callbacks, 1, Len(ran))
  /\ pc = "returned" => ran = lst.callbacks
  /\ pc \in {"callbacks", "returned"} => DOMAIN fails = {}
  /\ pc = "raised" => DOMAIN fails # {} /\ ran = <<>>
  /\ (AllDrained /\ DOMAIN fails # {} /\ pc \notin {"request", "bucket"}) => pc = "raised"

C1_Witness ==
  /\ pc = "returned"
  /\ ran = <<"assets", "logger">>
  /\ Len(done) = 2

\* C2: an entry that declares size and SHA-1, whose first attempt failed with
\* not_found or with invalid_sha1 (the right size), and for which the server
\* would answer the declared bytes to one more GET: the retry issues that GET
\* and the entry succeeds.
C2_RetryRecovers ==
  [][ ( /\ pc = "attempt"
        /\ tries = 1
        /\ error \in {"invalid_sha1", "not_found"}
        /\ CurEntry.size # None
        /\ CurEntry.sha1 # NoneStr
        /\ IsCorrect(would, CurEntry) )
      => ( /\ Len(requests') = Len(requests) + 1
           /\ Len(done') = Len(done) + 1
           /\ done'[Len(done')].ok ) ]_dlvars

\* C3, as stated: every drained entry made at most three attempts, and its URL is
\* in the failure map exactly when none of its attempts succeeded.
C3_FailIffEntryFailed ==
  \A i \in 1..Len(done) :
    /\ done[i].tries <= 3
    /\ (done[i].entry.url \in DOMAIN fails) <=> ~done[i].ok

\* the steps download_files has left at most: every action of the drain lowers it
Measure ==
  LET nb  == Len(lst.entries)
      ne  == lst.count - Len(done)
      cbs == (Len(lst.callbacks) + 1 - ci) + 1
  IN CASE pc = "bucket"    -> 2 * (nb + 1 - bi) + 1 + 4 * ne + cbs
       [] pc = "request"   -> 2 * (nb - bi) + 2 + 4 * ne + cbs
       [] pc = "attempt"   -> 2 * (nb - bi) + 2 + 4 * (ne - 1) + (3 - tries) + cbs
       [] pc = "callbacks" -> cbs
       [] OTHER            -> 0

\* the actions of download_files once it was called
DrainStep ==
  OpenBucket \/ Request \/ Attempt \/ CloseBucket \/ AfterAllBuckets \/ RunCallback \/ Return

\* C3, amended: every entry makes at most three attempts and download_files
\* always terminates (it can always take a step until it returns or raises, and
\* every step lowers a bounded measure); a URL is in the failure map exactly when
\* some entry with that URL had none of its attempts succeed, with a kind among
\* not_found, invalid_size, invalid_sha1.
C3_FailIffSomeEntryFailed ==
  /\ [](/\ tries <= 3
        /\ \A i \in 1..Len(done) : done[i].tries \in 1..3
        /\ DOMAIN fails = FailedUrls
        /\ \A u \in DOMAIN fails : fails[u] \in ErrorKinds
        /\ Measure >= 0
        /\ pc \in DrainPcs => ENABLED DrainStep)
  /\ [][(pc \in DrainPcs) => (Measure' < Measure)]_dlvars

C3_Witness ==
  /\ pc = "raised"
  /\ \E i, j \in 1..Len(done) :
       /\ done[i].entry.url = done[j].entry.url
       /\ done[i].ok
       /\ ~done[j].ok
       /\ done[j].tries = 3

\* the destination file holds what the entry declares
FileAsDeclared(entry) ==
  /\ files[entry.dst].exists
  /\ entry.size # None => Len(files[entry.dst].data) = entry.size
  /\ entry.sha1 # NoneStr => HexDigest(files[entry.dst].data) = entry.sha1

\* C4: after a successful drain every destination file of the plan has the
\* declared size and the declared SHA-1 (when declared), for all entries.
C4_FilesAsDeclared ==
  pc \in {"callbacks", "returned"} =>
    \A i \in 1..Len(Flatten(lst.entries)) : FileAsDeclared(Flatten(lst.entries)[i])

\* C5: the bytes counted during a failed attempt are taken off again, so the
\* aggregate is the sum of the bytes received in the successful attempts of the
\* entries that declare a size.
C5_TotalIsSuccessfulBytes ==
  pc \in DrainPcs \cup {"raised", "returned"} => total_size = ReceivedDeclared(done)

C5_Witness ==
  /\ pc = "attempt"
  /\ tries = 1
  /\ error = "invalid_sha1"
  /\ KnownSize(CurEntry)
  /\ Len(done) = 1
  /\ done[1].ok
  /\ done[1].got = 1
  /\ total_size = 1

C7_DistinctDestinations ==
  LET es == Flatten(lst.entries)
  IN \A i, j \in 1..Len(es) : i # j => es[i].dst # es[j].dst

\* C8: count is the number of entries over all buckets, size the sum of the
\* declared sizes, every entry sits in the bucket keyed by the scheme bit and the
\* netloc of its URL, in insertion order; an append with another scheme raises
\* ValueError and leaves the plan as it was.
C8_PlanAggregates ==
  /\ lst.count = Len(Flatten(lst.entries))
  /\ lst.count = CountAccepted(appended)
  /\ lst.size = DeclaredSizes(appended)
  /\ \A i \in 1..Len(appended) :
       appended[i].raised <=> appended[i].entry.url.scheme \notin {"http", "https"}
  /\ \A b \in 1..Len(lst.entries) :
       /\ lst.entries[b].list # <<>>
       /\ lst.entries[b].list = SelectCalls(appended, lst.entries[b].host)
       /\ \A c \in 1..Len(lst.entries) : lst.entries[c].host = lst.entries[b].host => c = b

C8_Witness ==
  /\ Len(appended) = 2
  /\ appended[1].raised
  /\ ~appended[2].raised
  /\ lst.count = 1
  /\ lst.size = 1

(***************************************************************************)
(* Properties of the resolver.                                             *)
(***************************************************************************)
\* the cache file holds a version document that json.load reads
Parses(f) == f.kind = "doc"

\* a step that is a whole call of resolve_version_meta(main_dir, name)
ResolveCall ==
  /\ ncalls' = ncalls + 1
  /\ rr' = rr
  /\ result'.op = "resolve_version_meta"

\* C9: resolve_version_meta(id) returns the cached document when the cache file
\* exists and parses, requesting no version document; when the cache file is
\* absent or does not parse and the manifest has an entry for id, it requests
\* the document of that entry, writes it to the cache file and returns it; when
\* there is neither a cached document that parses nor a manifest entry, it raises
\* VersionNotFoundError and writes nothing.  (Requests are taken to succeed.)
C9_ResolveContract ==
  [][ResolveCall =>
       LET name == result'.name
           f == cache[name]
       IN /\ Parses(f) =>
               /\ result'.raised = NoneStr
               /\ result'.content = f.doc
               /\ result'.version_dir = get_version_dir(name)
               /\ requested' = requested
               /\ cache' = cache
          /\ (~Parses(f) /\ name \in manifest /\ net_up) =>
               /\ result'.raised = NoneStr
               /\ result'.content = RemoteDoc(name)
               /\ requested' = Append(requested, name)
               /\ cache' = [cache EXCEPT ![name] = CacheFile("doc", RemoteDoc(name))]
          /\ (~Parses(f) /\ name \notin manifest /\ net_up) =>
               /\ result'.raised = "VersionNotFoundError"
               /\ requested' = requested
               /\ cache' = cache]_vars

(***************************************************************************)
(* Properties of the merge.                                                *)
(***************************************************************************)
\* out is parent and child merged: key by key, two maps merged the same way, two
\* lists the parent's elements then the child's, otherwise the child's value;
\* a key of one side only keeps its value
RECURSIVE MergedAs(_, _, _)
MergedAs(out, parent, child) ==
  /\ IsDict(out)
  /\ Keys(out) = Keys(parent) \cup Keys(child)
  /\ Cardinality(out.v) = Cardinality(Keys(out))
  /\ \A k \in Keys(out) :
       LET o == Get(out, k)
       IN IF Has(parent, k) /\ Has(child, k)
          THEN LET a == Get(parent, k)
                   b == Get(child, k)
               IN IF IsDict(a) /\ IsDict(b) THEN MergedAs(o, a, b)
                  ELSE IF IsList(a) /\ IsList(b)
                  THEN /\ IsList(o)
                       /\ Len(o.v) = Len(a.v) + Len(b.v)
                       /\ SubSeq(o.v, 1, Len(a.v)) = a.v
                       /\ SubSeq(o.v, Len(a.v) + 1, Len(o.v)) = b.v
                  ELSE o = b
          ELSE IF Has(parent, k) THEN o = Get(parent, k) ELSE o = Get(child, k)

\* the example: the parent, the child and the document expected of the merge
ExampleParent ==
  JDict({<<"libraries", JList(<<"A">>)>>, <<"arguments", JDict({<<"game", JList(<<"x">>)>>})>>})
ExampleChild ==
  JDict({<<"inheritsFrom", JStr("p")>>, <<"libraries", JList(<<"B">>)>>,
         <<"arguments", JDict({<<"game", JList(<<"y">>)>>})>>})
ExampleMerged ==
  JDict({<<"libraries", JList(<<"A", "B">>)>>,
         <<"arguments", JDict({<<"game", JList(<<"x", "y">>)>>})>>})

\* C10: the document resolve_version_meta_recursive makes of a parent and a child
\* is the two merged key by key (maps recursively, lists parent then child,
\* otherwise the child's value, keys of one side kept), the child's inheritsFrom
\* aside; the example parent and child give the example document
C10_MergeDiscipline ==
  mpc = "merged" =>
    /\ MergedAs(merged, parent_meta, Del(version_meta, "inheritsFrom"))
    /\ (parent_meta = ExampleParent /\ version_meta = ExampleChild) => merged = ExampleMerged

C10_Witness ==
  /\ mpc = "merged"
  /\ parent_meta = ExampleParent
  /\ version_meta = ExampleChild
  /\ merged = ExampleMerged

(***************************************************************************)
(* Properties of the resolver on inheritance chains.                       *)
(***************************************************************************)
\* what resolve_version_meta(main_dir, name) raises or returns in this state
Resolved(name) == resolve_version_meta(name, ResolverState)

\* the parent a document names, "" for none
ParentName(meta) == IF Has(meta, "inheritsFrom") THEN Get(meta, "inheritsFrom").v ELSE ""

\* the number of versions still to resolve from name on, counted up to fuel;
\* fuel + 1 when the chain is longer
RECURSIVE Links(_, _)
Links(name, fuel) ==
  IF name = "" THEN 0
  ELSE IF fuel = 0 THEN 1
  ELSE LET r == Resolved(name)
       IN IF r.raised # NoneStr THEN 1 ELSE 1 + Links(ParentName(r.content), fuel - 1)

\* the versions the loop of resolve_version_meta_recursive has still to resolve
RemainingLinks == Links(ParentName(rr.version_meta), Cardinality(DOMAIN cache))
\* the chain ahead of the loop goes through no version twice
AcyclicChain == RemainingLinks <= Cardinality(DOMAIN cache)

\* a step of resolve_version_meta_recursive that returns
ReturnsMerged == rr.pc = "loop" /\ rr'.pc = "idle" /\ result'.raised = NoneStr

\* C11: on an acyclic inheritsFrom chain resolve_version_meta_recursive
\* terminates (its loop can always take a step, and every step ends the call or
\* leaves fewer versions to resolve); the document it returns has no
\* inheritsFrom key and the directory it returns is that of the requested version.
C11_AcyclicChainResolves ==
  /\ []((rr.pc = "loop" /\ AcyclicChain) => ENABLED (MergeParent \/ ReturnMerged))
  /\ [][(rr.pc = "loop" /\ AcyclicChain) =>
          (rr'.pc = "idle" \/ (rr'.pc = "loop" /\ RemainingLinks' < RemainingLinks))]_vars
  /\ [][ReturnsMerged =>
          /\ result'.op = "resolve_version_meta_recursive"
          /\ result'.name = rr.name
          /\ IsDict(result'.content)
          /\ ~Has(result'.content, "inheritsFrom")
          /\ result'.version_dir = get_version_dir(rr.name)]_vars

C11_Witness ==
  /\ rr.pc = "idle"
  /\ result.op = "resolve_version_meta_recursive"
  /\ result.name = "c"
  /\ result.raised = NoneStr
  /\ Get(result.content, "libraries") = JList(<<"g", "p", "c">>)
  /\ result.version_dir = get_version_dir("c")

\* C12: when the loop of resolve_version_meta_recursive comes to a version this
\* call has already resolved (the chain has a cycle), the call ends there and
\* raises VersionNotFoundError.
C12_CycleRejected ==
  [][(rr.pc = "loop" /\ ParentName(rr.version_meta) \in rr.visited) =>
       (rr'.pc = "idle" /\ result'.raised = "VersionNotFoundError")]_vars

\* C13: a run of resolve_version_meta_recursive that follows a run on the same
\* version returns the same document and directory; the steps of the loop leave
\* every cache file as it is, but for the file of a version they fetched; for a
\* version without inheritsFrom the call returns what resolve_version_meta returns.
C13_RepeatedRunsAgree ==
  /\ [][(/\ ReturnsMerged
         /\ result.op = "resolve_version_meta_recursive"
         /\ result.name = rr.name
         /\ result.raised = NoneStr) =>
          (result'.content = result.content /\ result'.version_dir = result.version_dir)]_vars
  /\ [][rr.pc = "loop" =>
          \A id \in DOMAIN cache :
            \/ cache'[id] = cache[id]
            \/ (~Parses(cache[id]) /\ cache'[id] = CacheFile("doc", RemoteDoc(id)))]_vars
  /\ [][(ReturnsMerged /\ rr.iter = 0) =>
          /\ Resolved(rr.name).raised = NoneStr
          /\ result'.content = Resolved(rr.name).content
          /\ result'.version_dir = get_version_dir(rr.name)]_vars

C13_Witness ==
  /\ ncalls = 2
  /\ rr.pc = "loop"
  /\ rr.name = "c"
  /\ rr.iter = 1
  /\ result.op = "resolve_version_meta_recursive"
  /\ result.name = "c"
  /\ result.raised = NoneStr
  /\ Get(result.content, "libraries") = JList(<<"p", "c">>)
  /\ rr.version_meta = result.content

(***************************************************************************)
(* Properties of interpret_rule.                                           *)
(***************************************************************************)
\* every os constraint the rule carries matches the probed platform
OsMatches(pf, rule) ==
  \/ ~Has(rule, "os")
  \/ LET ros == Get(rule, "os")
     IN /\ Has(ros, "name") => Get(ros, "name").v = pf.mc_os
        /\ Has(ros, "arch") => Get(ros, "arch").v = pf.mc_arch
        /\ Has(ros, "version") => Search(ReCompile(Get(ros, "version").v), Chars(pf.version))

\* every entry of the features mapping of the rule equals the caller's map, a
\* name absent from the caller's map (or no map at all) being a mismatch
FeaturesMatch(rule, features) ==
  \/ ~Has(rule, "features")
  \/ \A f \in Get(rule, "features").v :
       /\ features # JNull
       /\ Has(features, f[1])
       /\ Get(features, f[1]) = f[2]

\* the rules of the call that are not skipped
Applied ==
  {i \in 1..Len(call.rules) :
     OsMatches(call.pf, call.rules[i]) /\ FeaturesMatch(call.rules[i], call.features)}
LastApplied == CHOOSE i \in Applied : \A j \in Applied : j <= i

InterpretRuleDone == call.op = "interpret_rule" /\ ret.done

\* C14: interpret_rule returns the decision of the last rule that is not skipped,
\* true for allow and false for disallow, and deny when there is no such rule
\* (an empty list, or every rule skipped by its os constraints or its features).
C14_DecisionOfLastAppliedRule ==
  InterpretRuleDone =>
    /\ ret.raised = NoneStr
    /\ ret.value = (/\ Applied # {}
                    /\ Get(call.rules[LastApplied], "action").v = "allow")

\* C15: for every caller, with a features map or without, interpret_rule returns,
\* and it allows only through an allow rule whose features entries all equal the
\* caller's map; when every rule carries features and the caller supplies no
\* map, the result is deny.
C15_FeaturesOfEveryCaller ==
  InterpretRuleDone =>
    /\ ret.raised = NoneStr
    /\ ret.value =>
         \E i \in 1..Len(call.rules) :
           /\ Get(call.rules[i], "action").v = "allow"
           /\ FeaturesMatch(call.rules[i], call.features)
    /\ (/\ call.features = JNull
        /\ \A i \in 1..Len(call.rules) :
             Has(call.rules[i], "features") /\ Get(call.rules[i], "features").v # {})
       => ~ret.value

(***************************************************************************)
(* Properties of the argument vector.                                      *)
(***************************************************************************)
\* the tokens the flags and the server of the call add, as the caller gave them
TailTokens(c) ==
  (IF c.disable_multiplayer THEN <<Text("--disableMultiplayer")>> ELSE <<>>)
  \o (IF c.disable_chat THEN <<Text("--disableChat")>> ELSE <<>>)
  \o (IF c.server_addr # NoneText THEN <<Text("--server"), c.server_addr>> ELSE <<>>)
  \o (IF c.server_port # NoneStr THEN <<Text("--port"), Text(c.server_port)>> ELSE <<>>)

StartArgsDone == call.op = "start_args" /\ ret.done

\* C16: --disableMultiplayer, --disableChat, --server <addr> and --port <port>
\* are appended after the placeholders were replaced: the argument vector ends
\* with these tokens as the caller gave them, a server address that holds a
\* known placeholder included.
C16_TokensAfterSubstitution ==
  StartArgsDone =>
    /\ ret.raised = NoneStr
    /\ Len(ret.value) >= Len(TailTokens(call))
    /\ SubSeq(ret.value, Len(ret.value) - Len(TailTokens(call)) + 1, Len(ret.value))
         = TailTokens(call)


(***************************************************************************)
(* C17, C18: the libraries                                                 *)
(***************************************************************************)
LibrariesDone == call.op = "ensure_libraries" /\ ret.done

Range(q) == {q[i] : i \in DOMAIN q}

\* the rules of the library, if any, allow it on the platform
RuleAllowed(pf, lib) ==
  \/ ~Has(lib, "rules")
  \/ /\ interpret_rule(pf, Get(lib, "rules"), JNull).raised = NoneStr
     /\ interpret_rule(pf, Get(lib, "rules"), JNull).value

\* the natives mapping of the library has the current OS
HasNativeFor(pf, lib) == Has(lib, "natives") /\ Has(Get(lib, "natives"), pf.mc_os)

HasDownload(lib, key) == Has(lib, "downloads") /\ Has(Get(lib, "downloads"), key)

\* the classifier of the library on the platform, ${arch} replaced by the word size
NativeClassifier(pf, lib) ==
  Replace(Get(Get(lib, "natives"), pf.mc_os), "arch", Text(pf.mc_archbits))

\* C17: every rule-allowed library whose natives mapping has the current OS is
\* in the native list, at the path of its classifier with ${arch} replaced by
\* the word size; every other rule-allowed library that has downloads.artifact
\* is in the classpath list at the path of its artifact, a library with
\* natives for other operating systems only included.
C17_LibraryClassification ==
  LibrariesDone =>
    /\ ret.raised = NoneStr
    /\ \A i \in DOMAIN call.libraries :
         LET lib == call.libraries[i]
         IN RuleAllowed(call.pf, lib) =>
              IF HasNativeFor(call.pf, lib)
              THEN /\ HasDownload(lib, "classifiers")
                   /\ Has(Get(Get(lib, "downloads"), "classifiers"),
                          NativeClassifier(call.pf, lib))
                   /\ LibrariesDir(Get(Get(Get(lib, "downloads"), "classifiers"),
                                       NativeClassifier(call.pf, lib)).path)
                        \in Range(ret.value.native_libs)
              ELSE HasDownload(lib, "artifact") =>
                     LibrariesDir(Get(Get(lib, "downloads"), "artifact").path)
                       \in Range(ret.value.classpath_libs)

\* C18: a rule-allowed library with neither downloads.artifact nor
\* downloads.classifiers is at its Maven path: with a url it is on the
\* classpath, and a download of url + path to that path is planned when the
\* file is missing; without a url nothing is planned for it, and it is left out
\* of the classpath when the file is missing.
C18_MavenFallback ==
  LibrariesDone =>
    /\ ret.raised = NoneStr
    /\ \A i \in DOMAIN call.libraries :
         LET lib == call.libraries[i]
             lib_path == LibrariesDir(MavenPath(Get(lib, "name")))
             missing == ~IsFile(call.disk, lib_path)
             planned == {e \in Range(ret.value.entries) : e.dst = lib_path}
         IN (/\ RuleAllowed(call.pf, lib)
             /\ ~HasDownload(lib, "artifact")
             /\ ~HasDownload(lib, "classifiers")) =>
              IF Has(lib, "url")
              THEN /\ lib_path \in Range(ret.value.classpath_libs)
                   /\ missing =>
                        planned = {DownloadEntry(
                                     MavenEntryUrl(Get(lib, "url"), MavenPath(Get(lib, "name"))),
                                     lib_path, None, NoneStr, Get(lib, "name"))}
              ELSE /\ planned = {}
                   /\ missing => lib_path \notin Range(ret.value.classpath_libs)


(***************************************************************************)
(* C19: the finaliser of the assets                                        *)
(***************************************************************************)
AssetsFinalised == \E i \in DOMAIN ran : ran[i] = "assets"

\* C19: once the finaliser of ensure_assets has run, every asset id of the
\* index has, at workDir/resources/<id> when map_to_resources is set and at
\* assets/virtual/<assetsId>/<id> when virtual is set, a copy of the object
\* file of that id (objects/<hash[0:2]>/<hash>).
C19_AssetsMaterialised ==
  AssetsFinalised =>
    \A i \in DOMAIN assets_index.objects :
      LET obj == assets_index.objects[i]
      IN /\ assets_index.map_to_resources =>
              files[ResourcesAssetFile(obj.id)] = files[AssetFile(obj.hash)]
         /\ assets_index.virtual =>
              files[VirtualAssetFile(obj.id)] = files[AssetFile(obj.hash)]


(***************************************************************************)
(* C20: the logging argument without better logging                        *)
(***************************************************************************)
LoggerDone == call.op = "ensure_logger" /\ ret.done

HasClientLogging(meta) == Has(meta, "logging") /\ Has(Get(meta, "logging"), "client")

\* the vendor config file of the document: log_configs/<id>
VendorLoggingFile(meta) ==
  Append(LogConfigDir, Text(Get(Get(Get(meta, "logging"), "client"), "file").id))

\* C20: when the document has logging.client and better logging is not
\* requested, ensure_logger returns normally, and returns the vendor argument
\* template with ${path} replaced by the path of the vendor config file.
C20_VendorLoggingArgument ==
  (LoggerDone /\ HasClientLogging(call.version_meta) /\ ~call.better_logging) =>
    /\ ret.raised = NoneStr
    /\ ret.value = Replace(Get(Get(Get(call.version_meta, "logging"), "client"), "argument"),
                           "path", PathText(VendorLoggingFile(call.version_meta)))


(***************************************************************************)
(* C21: the failures of ensure_jvm                                         *)
(***************************************************************************)
JvmDone == call.op = "ensure_jvm" /\ ret.done

\* the failure the platform and the index call for, NoneStr when there is none
JvmFailure(c) ==
  IF get_minecraft_jvm(c.pf) = NoneStr THEN "not_found"
  ELSE IF ~Has(c.all_jvm_meta, get_minecraft_jvm(c.pf)) THEN "unsupported_jvm_arch"
  ELSE IF ~Has(Get(c.all_jvm_meta, get_minecraft_jvm(c.pf)), c.jvm_version_type)
  THEN "unsupported_jvm_version"
  ELSE NoneStr

\* C21: ensure_jvm raises JvmLoadingError with not_found when the platform has
\* no JVM key, unsupported_jvm_arch when the index has no entry for the key,
\* unsupported_jvm_version when that entry has no entry for the component; in
\* each of these cases nothing was appended to the plan and no finaliser added.
C21_JvmFailures ==
  (JvmDone /\ JvmFailure(call) # NoneStr) =>
    /\ ret.raised = "JvmLoadingError"
    /\ ret.kind = JvmFailure(call)
    /\ ret.value.entries = <<>>
    /\ ret.value.callbacks = <<>>

C21_Witness ==
  /\ JvmDone
  /\ ret.raised = "JvmLoadingError"
  /\ ret.kind = "unsupported_jvm_version"
  /\ call.pf.mc_os = "linux"


(***************************************************************************)
(* C22: save() followed by load()                                          *)
(***************************************************************************)
\* the (provider, identity, session) triples of a store
StoredSessions(sessions) ==
  UNION { { <<sessions[i][1], sessions[i][2][j][1], sessions[i][2][j][2]>> :
              j \in DOMAIN sessions[i][2] } : i \in DOMAIN sessions }

\* the last operation was a save and this one is a load
LoadAfterSave == aret.op = "save" /\ aret'.op = "load"

\* C22: a load() that follows a save() does not raise and leaves the store
\* with the same (provider, identity) keys and, under each, a session of the
\* same field values as before
C22_SaveLoadRoundTrip ==
  [][LoadAfterSave => (aret'.raised = NoneStr /\ StoredSessions(db') = StoredSessions(db))]_vars

\* a session of each provider came back from the file a save wrote
C22_Witness ==
  /\ aret.op = "load"
  /\ filename = CacheFile("doc", save(db))
  /\ \E e \in Emails, sess \in SessionPool :
        sess.TYPE = "microsoft" /\ <<"microsoft", e, sess>> \in StoredSessions(db)


(***************************************************************************)
(* C23: the import of the legacy file                                      *)
(***************************************************************************)
\* the fields of a line of the legacy file, its line terminator aside
LineFields(line) ==
  SplitOn(IF line # <<>> /\ line[Len(line)] = Lit("\n") THEN SubSeq(line, 1, Len(line) - 1)
          ELSE line, " ")

\* the session the line `identity clientToken username uuid accessToken` names
NamedSession(f) == YggdrasilAuthSession(JStr(f[5]), JStr(f[3]), JStr(f[4]), JStr(f[2]))

\* this step is a load()
LoadStep == aret'.op = "load" /\ nops' = nops + 1

\* C23: a load() with the primary file absent leaves every five-field line
\* of the legacy file in the yggdrasil bucket, under its identity and with
\* the fields as the line names them, and the legacy file deleted; a load()
\* with the primary file present leaves the legacy file as it was
C23_LegacyImport ==
  [][LoadStep =>
       /\ (filename.kind = "absent" /\ legacy_filename.kind = "lines") =>
             /\ legacy_filename'.kind = "absent"
             /\ \A i \in DOMAIN legacy_filename.lines :
                   LET f == LineFields(legacy_filename.lines[i])
                   IN Len(f) = 5 => get(db', f[1], "yggdrasil") = Some(NamedSession(f))
       /\ filename.kind # "absent" => legacy_filename' = legacy_filename]_vars


(***************************************************************************)
(* C24: the migration from the legacy file                                 *)
(***************************************************************************)
\* a load() by a new store finds a session of the legacy provider under the
\* identity
Recoverable(email_or_username) ==
  ~get(load(filename, legacy_filename).sessions, email_or_username, "yggdrasil").none

\* C24: after any sequence of commands, every identity that a load() imported
\* from the legacy file it deleted, and that no logout removed since, has a
\* session that a load() by a new store recovers from the files
C24_MigrationDurable ==
  \A i \in DOMAIN migrated : \A j \in DOMAIN migrated[i][2] :
    Recoverable(migrated[i][2][j][1])


(***************************************************************************)
(* C25: what load() tolerates                                              *)
(***************************************************************************)
\* the section is an object whose sessions are an object of objects
WellFormed(typ_data) ==
  /\ typ_data.t = "obj"
  /\ OdHas(typ_data.v, "sessions")
  /\ OdGet(typ_data.v, "sessions").t = "obj"
  /\ \A item \in Range(OdGet(typ_data.v, "sessions").v) : item[2].t = "obj"

\* the store holds, under the provider and the identity, the session of the
\* file's fields, the missing ones empty
LoadedAs(sessions, typ, email, sess_data) ==
  /\ ~get(sessions, email, typ).none
  /\ \A field \in Range(FIELDS(typ)) :
        get(sessions, email, typ).sess[field] =
          IF OdHas(sess_data.v, field) THEN OdGet(sess_data.v, field) ELSE JStr(<<>>)

\* C25: a load() of a primary file that is missing, is not JSON, or is a
\* JSON object of sections does not raise; it leaves no bucket of an unknown
\* provider, and it leaves every session of every well-formed section of a
\* known provider in the store, the fields the file lacks empty
C25_LoadTolerates ==
  [][(LoadStep /\ filename.kind \in {"absent", "garbage", "doc"}
               /\ legacy_filename.kind # "undecodable") =>
       /\ aret'.raised = NoneStr
       /\ \A i \in DOMAIN db' : db'[i][1] \in TYPES
       /\ filename.kind = "doc" =>
             \A section \in Range(filename.doc.v) :
               (section[1] \in TYPES /\ WellFormed(section[2])) =>
                 \A item \in Range(OdGet(section[2].v, "sessions").v) :
                   LoadedAs(db', section[1], item[1], item[2])]_vars


(***************************************************************************)
(* C26: the provider tags of the store                                     *)
(***************************************************************************)
\* this step is a put() of a session of no known provider
PutUnknown == aret'.op = "put" /\ nops' = nops + 1 /\ aret'.typ \notin TYPES

\* C26: a put() of a session of no known provider raises and leaves the
\* store as it was; after every operation the buckets of the store are of
\* known providers, and so are the sections of the file a save() writes
C26_KnownProvidersOnly ==
  [][/\ PutUnknown => (aret'.raised = "ValueError" /\ db' = db)
     /\ \A i \in DOMAIN db' : db'[i][1] \in TYPES
     /\ aret'.op = "save" => \A section \in Range(filename'.doc.v) : section[1] \in TYPES]_vars

\* a session of no known provider was refused by a store that holds sessions
C26_Witness ==
  /\ aret.op = "put"
  /\ aret.raised = "ValueError"
  /\ aret.session.sess.TYPE = "raw"
  /\ StoredSessions(db) # {}


(***************************************************************************)
(* C27: get, put and remove                                                *)
(***************************************************************************)
\* the triples of a store under a provider and an identity
StoredUnder(sessions, typ, email) ==
  {x \in StoredSessions(sessions) : x[1] = typ /\ x[2] = email}

\* the session an operation returned agrees with the triples of the store
Returned(session, triples) ==
  IF triples = {} THEN session.none
  ELSE ~session.none /\ triples = {<<x[1], x[2], session.sess>> : x \in triples}

\* this step is the operation `op`, and it did not raise
StoreStep(op) == aret'.op = op /\ nops' = nops + 1 /\ aret'.raised = NoneStr

\* C27: get() returns the session stored under the identity for the
\* provider, or none; a put() stores its session there and a remove() returns
\* the session stored there and takes it away, or returns none and changes
\* nothing; and neither changes what is stored under another provider or
\* another identity
C27_GetPutRemove ==
  [][/\ StoreStep("get") =>
          Returned(aret'.session, StoredUnder(db, aret'.typ, aret'.email))
     /\ StoreStep("put") =>
          StoredSessions(db') =
            (StoredSessions(db) \ StoredUnder(db, aret'.typ, aret'.email))
              \cup {<<aret'.typ, aret'.email, aret'.session.sess>>}
     /\ StoreStep("remove") =>
          /\ Returned(aret'.session, StoredUnder(db, aret'.typ, aret'.email))
          /\ StoredSessions(db') = StoredSessions(db) \ StoredUnder(db, aret'.typ, aret'.email)
          /\ aret'.session.none => db' = db]_vars

\* a session was removed under an identity that keeps its session of the
\* other provider
C27_Witness ==
  /\ aret.op = "remove"
  /\ ~aret.session.none
  /\ StoredUnder(db, aret.typ, aret.email) = {}
  /\ \E typ \in TYPES : StoredUnder(db, typ, aret.email) # {}


(***************************************************************************)
(* C28: format_token_argument                                              *)
(***************************************************************************)
TokenDone == ret.done /\ call.op = "format_token_argument"

\* the characters of a piece of an argument
PieceChars(str) == IF str = "token:" THEN <<"t", "o", "k", "e", "n", ":">> ELSE <<str>>

\* an argument as the string of its characters
RECURSIVE Flat(_)
Flat(arg) == IF arg = <<>> THEN <<>> ELSE PieceChars(Head(arg).v) \o Flat(Tail(arg))

\* C28: the argument is "token:<access token>:<uuid>" in the legacy form and
\* the access token alone otherwise, and in either form two sessions of one
\* uuid and of different access tokens give different arguments
C28_TokenArgument ==
  TokenDone =>
    /\ Flat(ret.value) =
         IF call.legacy
         THEN <<"t", "o", "k", "e", "n", ":">> \o Flat(call.auth.access_token)
                \o <<":", call.auth.uuid>>
         ELSE Flat(call.auth.access_token)
    /\ call.auth.access_token # call.other.access_token => Flat(ret.value) # Flat(ret.other)

\* the legacy form of two different tokens, one of which ends with the separator
C28_Witness ==
  /\ TokenDone
  /\ call.legacy
  /\ call.auth.access_token = <<Lit("a"), Lit(":")>>
  /\ call.other.access_token = <<Lit("a")>>
  /\ call.auth.uuid = ":"


(***************************************************************************)
(* C29: the OAuth chain                                                    *)
(***************************************************************************)
AuthDone == ret.done /\ call.op = "authenticate_base"

\* the kind of an AuthError as the spec names it, without the "microsoft."
\* that the code puts before the kinds of this provider
SpecKind(kind) ==
  CASE kind = "microsoft.inconsistent_user_hash" -> "inconsistent_user_hash"
    [] kind = "microsoft.does_not_own_minecraft" -> "does_not_own_minecraft"
    [] kind = "microsoft.outdated_token"         -> "outdated_token"
    [] kind = "microsoft.error"                  -> "error"
    [] OTHER                                     -> kind

\* the answer of the XBL or of the XSTS stage carries a token and a user hash
XuiOk(answer) ==
  /\ answer.content.t = "dict"
  /\ Has(answer.content, "Token")
  /\ HasUhs(answer.content)

\* the URLs of the requests made, in their order
Urls(reqs) == [i \in DOMAIN reqs |-> reqs[i].url]

\* C29: when the XSTS stage was asked and its user hash differs from the
\* one of the XBL stage, authenticate_base raises
\* AuthError("inconsistent_user_hash") and has asked neither for the game
\* login nor for the profile; when it returns, it has made five requests, to
\* the token, XBL, XSTS, game login and profile endpoints in this order, each
\* with the value the answer before it carried
C29_OAuthChain ==
  AuthDone =>
    /\ (/\ Len(ret.reqs) >= 3
        /\ XuiOk(call.answers[2]) /\ XuiOk(call.answers[3])
        /\ Uhs(call.answers[2].content) # Uhs(call.answers[3].content)) =>
          /\ ret.raised = "AuthError"
          /\ SpecKind(ret.kind) = "inconsistent_user_hash"
          /\ \A i \in DOMAIN ret.reqs : ret.reqs[i].url \notin {MC_AUTH_URL, MC_PROFILE_URL}
    /\ ret.raised = NoneStr =>
          /\ Urls(ret.reqs) = <<MS_OAUTH_TOKEN_URL, MS_XBL_AUTH_URL, MS_XSTS_AUTH_URL,
                                MC_AUTH_URL, MC_PROFILE_URL>>
          /\ ret.reqs[1].input = call.request_token_payload
          /\ ret.reqs[2].input =
               <<Lit("d="), Lit(Get(call.answers[1].content, "access_token").v)>>
          /\ ret.reqs[3].input = <<Lit(Get(call.answers[2].content, "Token").v)>>
          /\ ret.reqs[4].input =
               <<Lit("XBL3.0 x="), Lit(Uhs(call.answers[2].content)), Lit(";"),
                 Lit(Get(call.answers[3].content, "Token").v)>>
          /\ ret.reqs[5].input =
               <<Lit("Bearer "), Lit(Get(call.answers[4].content, "access_token").v)>>

\* the chain stopped at the XSTS stage on two different user hashes
C29_Witness ==
  /\ AuthDone
  /\ ret.kind = "microsoft.inconsistent_user_hash"
  /\ Len(ret.reqs) = 3
  /\ Uhs(call.answers[2].content) = "h2"
  /\ Uhs(call.answers[3].content) = "h"

(***************************************************************************)
(* C30: the profile stage                                                  *)
(***************************************************************************)
\* the profile endpoint was asked and answered with a JSON document
ProfileAnswered == Len(ret.reqs) = 5 /\ call.answers[5].content.t = "dict"

SessionStep(op) == msret'.op = op /\ msops' = msops + 1

\* the profile endpoint answered 200 with a name
Named(answer) ==
  answer.content.t = "dict" /\ answer.status = 200 /\ Has(answer.content, "name")

\* C31: validate() returns true only when the profile answer is 200 with the
\* stored username, and on a 200 with another name it returns false and
\* leaves that name pending; in every other case it leaves no name pending.
\* A refresh() that finds a pending name makes it the username, leaves no
\* name pending, makes no request and changes no token; a refresh() without
\* a pending name asks the token endpoint first, with the refresh token of
\* the session. A name is pending only right after a validate() that
\* returned false on a 200 with another name
C31_ValidateRefresh ==
  [][/\ SessionStep("validate") =>
          LET answer == msret'.answers[1]
          IN /\ msret'.value => (Named(answer) /\ Get(answer.content, "name").v = ms.sess.username)
             /\ (Named(answer) /\ Get(answer.content, "name").v # ms.sess.username) =>
                   /\ ~msret'.value
                   /\ ms'.new_username = Get(answer.content, "name").v
             /\ ~(Named(answer) /\ Get(answer.content, "name").v # ms.sess.username) =>
                   ms'.new_username = NoneStr
             /\ ms'.sess = ms.sess
     /\ (SessionStep("refresh") /\ ms.new_username # NoneStr) =>
          /\ ms'.sess = [ms.sess EXCEPT !.username = ms.new_username]
          /\ ms'.new_username = NoneStr
          /\ msret'.reqs = <<>>
     /\ (SessionStep("refresh") /\ ms.new_username = NoneStr) =>
          /\ msret'.reqs # <<>>
          /\ msret'.reqs[1].url = MS_OAUTH_TOKEN_URL
          /\ msret'.reqs[1].input = <<Lit("refresh_token"), Lit(ms.sess.refresh_token)>>
          /\ ms'.new_username = NoneStr
          /\ msret'.raised = NoneStr =>
                Urls(msret'.reqs) = <<MS_OAUTH_TOKEN_URL, MS_XBL_AUTH_URL, MS_XSTS_AUTH_URL,
                                      MC_AUTH_URL, MC_PROFILE_URL>>
     /\ ms'.new_username # NoneStr => (msret'.op = "validate" /\ ~msret'.value)]_vars

\* a refresh() took the name a validate() left pending, without a request
C31_Witness ==
  /\ msret.op = "refresh"
  /\ msret.reqs = <<>>
  /\ ms.sess.username = "N"
  /\ ms.sess.access_token = "M0"

(***************************************************************************)
(* C39: a refresh() that fails                                             *)
(***************************************************************************)
\* C39: a refresh() that raises leaves the access token, the username, the
\* uuid and the refresh token of the session as they were
C39_RefreshAtomic ==
  [][(SessionStep("refresh") /\ msret'.raised # NoneStr) => ms'.sess = ms.sess]_vars

\* a refresh() got a new refresh token from the token endpoint and failed
\* at a later stage
C39_Witness ==
  /\ msret.op = "refresh"
  /\ msret.raised = "AuthError"
  /\ Len(msret.reqs) >= 3
  /\ Get(msret.answers[1].content, "refresh_token").v # ms.sess.refresh_token


(***************************************************************************)
(* C32: the requests to the listener                                       *)
(***************************************************************************)
\* this step is a turn of the loop
ListenerStep == nreqs' = nreqs + 1

\* the request carries a code and an id_token in a form body
CarriesPair(req) ==
  req.content_type = Form /\ req.qs.code # NoneStr /\ req.qs.id_token # NoIdToken

\* the recorded code and id_token are set together
PairTogether(srv) == (srv.ms_auth_code = NoneStr) <=> (srv.ms_auth_id_token = NoIdToken)

\* what every request does that the claim names: the pair of a POST is
\* recorded and answered 307 to the logout URL without ending the loop
Captures(req) ==
  /\ auth_server'.ms_auth_code = req.qs.code
  /\ auth_server'.ms_auth_id_token = req.qs.id_token
  /\ resp'.response = Response(307, LogoutUrl)
  /\ auth_server'.ms_auth_done = auth_server.ms_auth_done

C33_InterruptGivesNone ==
  (lpc = "returned" /\ interrupted) =>
    /\ lret.returned
    /\ lret.raised = NoneStr
    /\ lret.session = NoAuthResult
    /\ lret.reqs = <<>>

(***************************************************************************)
(* C34: the id_token and the exchange of the code                          *)
(***************************************************************************)
\* the id_token recorded is the one of this login
TokenAccepted ==
  /\ auth_server.ms_auth_id_token.nonce = IssuedNonce
  /\ auth_server.ms_auth_id_token.email = LoginEmail

\* C34: the token endpoint is asked only with an id_token of the nonce issued
\* and of the email asked for; with a code captured and another nonce or
\* email the function ends with the incoherent_data message and no request
C34_CodeExchangedAfterCheck ==
  lpc = "returned" =>
    /\ lret.reqs # <<>> => TokenAccepted
    /\ (auth_server.ms_auth_code # NoneStr /\ ~TokenAccepted) =>
          /\ lret.reqs = <<>>
          /\ lret.message = "Incoherent authentication data, please retry."


(***************************************************************************)
(* C35: filter_latest and search_versions                                  *)
(***************************************************************************)
SearchDone == ret.done /\ call.op = "search_versions"

\* the versions of the first n places of the list whose place is in
\* `places`, in the order of the list
RECURSIVE InOrder(_, _, _)
InOrder(versions, places, n) ==
  IF n = 0 THEN <<>>
  ELSE InOrder(versions, places, n - 1)
         \o (IF n \in places THEN <<versions[n]>> ELSE <<>>)

\* `sub` occurs in `str`
Occurs(sub, str) ==
  \E i \in 1..(Len(str) + 1), j \in 0..Len(str) : SubSeq(str, i, j) = sub

\* C35: filter_latest gives (latest[v], true) for a channel key v and
\* (v, false) otherwise; search_versions gives, in the order of the
\* manifest, the versions whose id is the resolved id for a channel key and
\* the versions whose id contains the input otherwise
C35_SearchVersions ==
  SearchDone =>
    LET channel == call.inp \in Keys(call.data.latest)
        versions == call.data.versions
        resolved == {i \in DOMAIN versions : versions[i].id = Get(call.data.latest, call.inp)}
        matching == {i \in DOMAIN versions : Occurs(call.inp, versions[i].id)}
    IN /\ channel => ret.filtered = <<Get(call.data.latest, call.inp), TRUE>>
       /\ ~channel => ret.filtered = <<call.inp, FALSE>>
       /\ channel => ret.value = InOrder(versions, resolved, Len(versions))
       /\ ~channel => ret.value = InOrder(versions, matching, Len(versions))

\* a channel key resolved to an id that another id of the manifest contains
C35_Witness ==
  /\ SearchDone
  /\ call.inp = <<"release">>
  /\ ret.filtered = <<<<"1">>, TRUE>>
  /\ call.data.versions = <<VersionData(<<"2", "1">>), VersionData(<<"1">>)>>
  /\ ret.value = <<VersionData(<<"1">>)>>


\* the requests sent so far to the host of the i-th request, up to it
PlaceInBucket(i) ==
  Cardinality({j \in 1..i : requests[j].host = requests[i].host})

\* the number of connections download_files opened: one per bucket it entered
Opened == IF pc \in {"bucket", "raised"} THEN bi - 1 ELSE bi

DownloadOver == pc \notin {"build", "bucket", "request", "attempt", "callbacks"}

\* C37: every connection the executor opened is closed: the connection of a
\* bucket is closed when the executor leaves the bucket, and no connection is
\* open once download_files is over, whether it returned, raised DownloadError
\* or let a failure of the socket or of the destination file propagate from
\* the middle of a bucket.
C37_ConnectionsClosed ==
  /\ \A c \in 1..(Len(conns) - 1) : ~conns[c].open
  /\ pc \in {"bucket", "callbacks"} => \A c \in 1..Len(conns) : ~conns[c].open
  /\ DownloadOver => \A c \in 1..Len(conns) : ~conns[c].open


(***************************************************************************)
(* C40: the placeholders                                                   *)
(***************************************************************************)
\* the place of the key in the table from place i on, 0 when it has none there
PlaceOf(repls, id, i) ==
  IF \E j \in i..Len(repls) : repls[j][1] = id
  THEN CHOOSE j \in i..Len(repls) : repls[j][1] = id
  ELSE 0

\* what a text becomes when the keys of the table from place i on are known:
\* a placeholder of such a key gives way to the value of the key, in which the
\* keys that come later in the table are known; any other piece stays
RECURSIVE Substituted(_, _, _)
Substituted(text, repls, i) ==
  IF text = <<>> THEN <<>>
  ELSE LET piece == Head(text)
           j == IF piece.k = "ph" THEN PlaceOf(repls, piece.v, i) ELSE 0
       IN (IF j = 0 THEN <<piece>> ELSE Substituted(repls[j][2], repls, j + 1))
          \o Substituted(Tail(text), repls, i)

\* the pieces of the text that are placeholders
PlaceholdersOf(text) == {text[i].v : i \in {j \in DOMAIN text : text[j].k = "ph"}}

\* the tokens of the vector behind the jvm prefix: one per raw token
Tokens == SubSeq(ret.value, Len(call.jvm) + 1, Len(ret.value))

\* C40: every raw token has every occurrence of every known ${key} replaced
\* and its unknown placeholders left as they are; the keys are applied one
\* after the other in the order of the replacement table, so the text put in
\* for a key is itself scanned for the keys that come later in the table, and
\* for these only.
C40_Placeholders ==
  (StartArgsDone /\ ret.raised = NoneStr) =>
    LET raw == RawArgs(call).value
        repls == Replacements(call)
    IN /\ Len(Tokens) = Len(raw)
       /\ \A i \in DOMAIN raw :
            /\ Tokens[i] = Substituted(raw[i], repls, 1)
            /\ \A id \in PlaceholdersOf(raw[i]) :
                 PlaceOf(repls, id, 1) = 0 => id \in PlaceholdersOf(Tokens[i])

\* the username of the session is ${classpath}: the token ${auth_player_name}
\* became the class path, the token that holds ${version_name} twice holds the
\* version twice, and ${clientid} is still there
C40_Witness ==
  /\ StartArgsDone
  /\ ret.raised = NoneStr
  /\ call.version_meta = PlaceholderMeta
  /\ call.auth # NoAuth
  /\ call.auth.username = <<Ph("classpath")>>
  /\ \E i \in DOMAIN Tokens : /\ RawArgs(call).value[i] = <<Ph("auth_player_name")>>
                              /\ Tokens[i] = Text("cp")
  /\ \E i \in DOMAIN Tokens : Tokens[i] = <<Lit("v"), Lit("/"), Lit("v")>>
  /\ \E i \in DOMAIN Tokens : Tokens[i] = <<Lit("--clientId="), Ph("clientid")>>


(***************************************************************************)
(* C38: the stages of start_mc                                             *)
(***************************************************************************)
\* the names of the stages completed, in order
StagesDone == [i \in DOMAIN trail |-> trail[i].stage]

Did(stage_name) == \E i \in DOMAIN trail : trail[i].stage = stage_name

\* the stages of a launch that runs to its end, in the order of the claim
RECURSIVE Times(_, _)
Times(stage_name, n) == IF n = 0 THEN <<>> ELSE <<stage_name>> \o Times(stage_name, n - 1)
StageOrder ==
  <<"resolve", "ensure_version_jar", "ensure_assets", "ensure_logger", "ensure_libraries">>
  \o (IF launch.jvm_given THEN <<>> ELSE <<"ensure_jvm">>)
  \o <<"download_files">>
  \o Times("extract", launch.native_libs)
  \o <<"args", "runner">>

\* the provisioners that appended to the plan, in the order they ran
RECURSIVE Appenders(_)
Appenders(tr) ==
  IF tr = <<>> THEN <<>>
  ELSE (IF Head(tr).appended THEN <<Head(tr).stage>> ELSE <<>>) \o Appenders(Tail(tr))

C38_WitnessDryRun ==
  /\ tpc = "returned"
  /\ launch.dry_run
  /\ Len(drained.entries) >= 2
  /\ Len(drained.ran) = 2
  /\ launch.native_libs = 1

\* the drain raised and start_mc was left
C38_WitnessRaised ==
  /\ tpc = "raised"
  /\ traised = "DownloadError"
  /\ launch.native_libs = 1
  /\ ~launch.dry_run

====
